---- MODULE Spec2Model ----
(***************************************************************************)
(* Healix: the REST backend (auth, vitals, emergency, assistant routes),   *)
(* the assistant's tool registry and context selection, and the React      *)
(* client code that calls them (assistantApi, VitalsModal, Signup, Login,  *)
(* geminiApi).  The Django code of the backend is documented in            *)
(* src/api_docs and src/backend; the client code is under src/Frontend     *)
(* and src/unnamed.                                                        *)
(***************************************************************************)
EXTENDS Integers, Sequences, FiniteSets, TLC

\* ------------------------------------------------------------------ bounds
\* Token keys the backend may issue in one run.
MaxKeys == 2
\* Rows (vitals, contacts, alerts, conversations, exchanges, insights) the
\* database may hold in one run.
MaxRows == 2
\* Messages one conversation may hold in one run.
MaxMessages == 3
\* Requests of one page that may be in flight at once.
MaxFetches == 2
\* Loads of a conversation that may be in flight at once.
MaxLoads == 1
MaxHistory == 2
\* Contacts added in the modal.
MaxAdds == 2

\* ------------------------------------------------------------------ values
Users == {"alice", "bob"}
Anonymous == "anonymous"
Null == "null"
\* an optional value: None, or Some(x)
None == <<>>
Some(x) == <<x>>
Get(o) == o[1]
NoToken == None
TokenInputs == {NoToken} \cup {<<k>> : k \in 1..MaxKeys}
Passwords == {"right", "wrong"}

\* Vitals payloads: every metric field is nullable; "invalid" stands for a
\* body the serializer rejects.
\* Temperatures are in tenths of a degree.
ValidVitals ==
    { [heart_rate |-> Some(72), oxygen_saturation |-> Some(98),
       body_temperature |-> Some(366)],
      [heart_rate |-> None, oxygen_saturation |-> Some(88),
       body_temperature |-> Some(381)] }
InvalidVitals == [invalid |-> TRUE]
VitalsInputs == ValidVitals \cup {InvalidVitals}

ContactEmails == {"jane@example.com"}
ChatMessages == {"", "hi"}
NoConversation == None
ConversationIds == 1..MaxRows
ConversationIdInputs == {NoConversation} \cup {Some(id) : id \in ConversationIds}
ActiveFilters == {None, Some(TRUE), Some(FALSE)}
Gemini == {"connected", "disconnected"}

VARIABLES
    \* backend database
    tokenOf,            \* authtoken table: user -> key, or NoToken
    nextKey,            \* number of keys issued so far
    vitalSigns,         \* VitalSigns rows
    emergencyContacts,  \* EmergencyContact rows
    outbox,             \* alert e-mails sent
    conversations,      \* AssistantConversation rows with their messages
    insights,           \* HealthInsight rows
    nextId,             \* primary-key / timestamp counter
    \* the response last sent by the backend
    response,
    \* browser
    localStorage,       \* healix_token, healix_user
    isLoggedIn,         \* Index state
    loginError,         \* Login state
    apiCall,            \* outcome of the last assistantApi call
    \* VitalsModal
    vitalsOpen,         \* Dashboard state: the modal's open prop
    vitals,             \* None, or Some(record)
    isLoading,
    vitalsError,        \* error: Null, or a message
    baseHR,             \* base of the generated chartData, 0 when there is none
    pulls,              \* the fetches of vitals/pull/ in flight
    \* registration
    accounts,           \* User rows: username and email
    location,           \* the route the router shows
    signupError,        \* Signup error: None, or Some(text)
    signupLoading,      \* Signup isLoading
    registrations,      \* the fetches of auth/register/ in flight
    \* assistant tools
    registry,           \* ToolRegistry: the names registered
    invoked,            \* the tool executions of the last dispatch
    toolResult,         \* the outcome of the last dispatch
    \* geminiApi
    geminiStage,        \* where generateGeminiReply stands
    liveVitals,         \* None, or Some(record)
    geminiData,         \* None, or Some(response of Gemini)
    sent,               \* the backend requests of the current call
    geminiReply,        \* the outcome of the last call
    fetchOutcome,       \* how the backend request of a function call settled
    \* assistant context
    ragContext,         \* the context selected for the last chat message
    \* useConversation
    conversationState,  \* the state of the hook
    chatCalls,          \* the sendMessage calls awaiting chatWithAssistant
    \* EmergencyConnectionsModal
    contacts,           \* the contacts listed
    storedContacts,     \* localStorage: healix_emergency_contacts
    isAdding,
    isAlerting,
    alertError,         \* error
    successMsg,
    addCall,            \* None, or Some(the addContact call in flight)
    alertCall,          \* None, or Some(the alert call in flight)
    clock,              \* Date.now()
    \* useGeminiConversation and AIChatModal
    geminiState,        \* the state of the hook
    replyCalls,         \* the sendMessage calls awaiting generateGeminiReply
    input,              \* the text in the input of the modal
    chatHistory,        \* the chats saved by Clear Chat
    showHistory,
    effectLength,       \* messages.length when the effect last ran
    hookCall,           \* the send function called in the last step, its text
    \* Login, Index and Dashboard
    loginLoading,       \* Login: isLoading
    loginCall,          \* None, or Some(the handleSubmit call under way)
    settingsOpen,       \* Dashboard: the settings menu is shown
    uncaught,           \* None, or Some(the error an event handler threw)
    \* VitalsModal: the insight card
    insightData,        \* None, or Some(the record generateAIInsight was given)
    insight             \* what generateAIInsight returned for it

dbVars == <<tokenOf, nextKey, vitalSigns, emergencyContacts, outbox,
            conversations, insights, nextId>>
\* stored data other than the token table
storeVars == <<vitalSigns, emergencyContacts, outbox, conversations, insights>>
httpVars == <<response>>
browserVars == <<localStorage, isLoggedIn, loginError, apiCall>>
apiVars == <<dbVars, httpVars, browserVars>>
modalVars == <<vitalsOpen, vitals, isLoading, vitalsError, baseHR, pulls>>
signupVars == <<accounts, location, signupError, signupLoading, registrations>>
toolVars == <<registry, invoked, toolResult>>
geminiVars ==
    <<geminiStage, liveVitals, geminiData, sent, geminiReply, fetchOutcome>>
ragVars == <<ragContext>>
hookVars == <<conversationState, chatCalls>>
contactVars == <<contacts, storedContacts, isAdding, isAlerting, alertError,
                 successMsg, addCall, alertCall, clock>>
insightVars == <<insightData, insight>>
indexVars == <<loginLoading, loginCall, settingsOpen, uncaught>>
chatModalVars == <<geminiState, replyCalls, input, chatHistory, showHistory,
                   effectLength, hookCall>>
\* what the REST API and the assistantApi client leave alone
apiFrame ==
    <<modalVars, signupVars, toolVars, geminiVars, ragVars, hookVars, contactVars,
      chatModalVars,
      indexVars, insightVars>>
\* what the VitalsModal leaves alone
modalFrame ==
    <<browserVars, signupVars, toolVars, geminiVars, ragVars, hookVars, contactVars,
      chatModalVars,
      indexVars, insightVars>>
\* what the registration leaves alone
signupFrame ==
    <<dbVars, browserVars, modalVars, toolVars, geminiVars, ragVars, hookVars,
      contactVars, chatModalVars,
      indexVars, insightVars>>
\* what a tool dispatch leaves alone
toolFrame ==
    <<apiVars, modalVars, signupVars, geminiVars, ragVars, hookVars, contactVars,
      chatModalVars,
      indexVars, insightVars>>
\* what generateGeminiReply leaves alone
geminiFrame ==
    <<browserVars, modalVars, signupVars, toolVars, ragVars, hookVars, contactVars,
      chatModalVars,
      indexVars, insightVars>>
\* what the context selection leaves alone
ragFrame ==
    <<apiVars, modalVars, signupVars, toolVars, geminiVars, hookVars,
      contactVars, chatModalVars,
      indexVars, insightVars>>
\* what useConversation leaves alone
hookFrame ==
    <<browserVars, modalVars, signupVars, toolVars, geminiVars, ragVars,
      contactVars, chatModalVars,
      indexVars, insightVars>>
\* what the EmergencyConnectionsModal leaves alone
contactFrame ==
    <<modalVars, signupVars, toolVars, geminiVars, ragVars, hookVars,
      chatModalVars,
      indexVars, insightVars>>
\* what useGeminiConversation and the AIChatModal leave alone
chatModalFrame ==
    <<apiVars, modalVars, signupVars, toolVars, geminiVars, ragVars, hookVars,
      contactVars, indexVars, insightVars>>
\* what Login and the Dashboard leave alone
indexFrame ==
    <<modalVars, signupVars, toolVars, geminiVars, ragVars, hookVars,
      contactVars, chatModalVars, insightVars>>
\* what the insight card leaves alone
insightFrame ==
    <<apiVars, modalVars, signupVars, toolVars, geminiVars, ragVars, hookVars,
      contactVars, chatModalVars, indexVars>>

vars == <<apiVars, modalVars, signupVars, toolVars, geminiVars, ragVars,
          hookVars, contactVars, chatModalVars, indexVars, insightVars>>

\* --------------------------------------------------------- backend: common
\* a faulty authentication: any key in the header is taken for alice's
AuthenticateAnyKey(t) == IF t # NoToken THEN "alice" ELSE Anonymous

\* DRF TokenAuthentication: the user whose key the Authorization header
\* carries, or Anonymous when the header is missing or names no stored key.
Authenticate(t) ==
    IF t # NoToken /\ \E u \in Users : tokenOf[u] = t
    THEN CHOOSE u \in Users : tokenOf[u] = t
    ELSE Anonymous

\* the rows created so far; ids and timestamps are drawn from nextId
CanCreate == nextId < MaxRows

\* the detail of an error response: a 401 tells a missing header from a key
\* that is not stored
Detail(status, t) ==
    IF status # 401 THEN ""
    ELSE IF t = NoToken THEN "Authentication credentials were not provided."
    ELSE "Invalid token."

\* the exchange last completed: the request's route, method and Authorization
\* header, and the response's status, the user the request was authenticated
\* as, its error detail and the rows it returns
Respond(route, method, t, status, records) ==
    response' = [route |-> route, method |-> method, token |-> t,
                 status |-> status, user |-> Authenticate(t),
                 detail |-> Detail(status, t), errors |-> <<>>,
                 records |-> records]

\* 401: IsAuthenticated rejects the request before the view runs
Unauthorized(route, method, t) ==
    /\ Respond(route, method, t, 401, {})
    /\ UNCHANGED dbVars

\* serialized rows; owner is the user of the row an item was built from
VitalsItem(v) ==
    [kind |-> "vitals", owner |-> v.user, id |-> v.id, data |-> v.data]
ContactItem(c) ==
    [kind |-> "contact", owner |-> c.user, email |-> c.email]
ConversationItem(c) ==
    [kind |-> "conversation", owner |-> c.user, id |-> c.id,
     is_active |-> c.is_active, message_count |-> Len(c.messages)]
ConversationDetail(c) ==
    [kind |-> "conversation_detail", owner |-> c.user, id |-> c.id,
     is_active |-> c.is_active, messages |-> c.messages]
InsightItem(i) ==
    [kind |-> "insight", owner |-> i.user, id |-> i.id,
     insight_type |-> i.insight_type]
ProfileItem(u) == [kind |-> "profile", owner |-> u, username |-> u]
TokenItem(u, k) == [kind |-> "token", owner |-> u, token |-> k]

\* ----------------------------------------------------------- backend: auth
\* POST /api/auth/login/ (public): the user's key, created when there is none
AuthLogin(username, password) ==
    IF username \in Users /\ password = "right"
    THEN IF tokenOf[username] # NoToken
         THEN /\ Respond("auth/login", "POST", NoToken, 200,
                         {TokenItem(username, tokenOf[username])})
              /\ UNCHANGED dbVars
         ELSE /\ nextKey < MaxKeys
              /\ nextKey' = nextKey + 1
              /\ tokenOf' = [tokenOf EXCEPT ![username] = <<nextKey + 1>>]
              /\ Respond("auth/login", "POST", NoToken, 200,
                         {TokenItem(username, <<nextKey + 1>>)})
              /\ UNCHANGED <<storeVars, nextId>>
    ELSE /\ Respond("auth/login", "POST", NoToken, 400, {})
         /\ UNCHANGED dbVars

\* a faulty logout: answers 200 and keeps the key
AuthLogoutKeepsKey(t) ==
    IF Authenticate(t) = Anonymous
    THEN Unauthorized("auth/logout", "POST", t)
    ELSE /\ Respond("auth/logout", "POST", t, 200, {})
         /\ UNCHANGED dbVars

\* POST /api/auth/logout/: deletes the caller's key
AuthLogout(t) ==
    IF Authenticate(t) = Anonymous
    THEN Unauthorized("auth/logout", "POST", t)
    ELSE /\ tokenOf' = [tokenOf EXCEPT ![Authenticate(t)] = NoToken]
         /\ Respond("auth/logout", "POST", t, 200, {})
         /\ UNCHANGED <<nextKey, storeVars, nextId>>

\* GET /api/auth/profile/
AuthProfile(t) ==
    IF Authenticate(t) = Anonymous
    THEN Unauthorized("auth/profile", "GET", t)
    ELSE /\ Respond("auth/profile", "GET", t, 200,
                    {ProfileItem(Authenticate(t))})
         /\ UNCHANGED dbVars

\* --------------------------------------------------------- backend: vitals
\* POST /api/vitals/push/: one row per snapshot, owned by the caller,
\* timestamped on write
VitalsPush(t, p) ==
    IF Authenticate(t) = Anonymous
    THEN Unauthorized("vitals/push", "POST", t)
    ELSE IF p \notin ValidVitals
    THEN /\ Respond("vitals/push", "POST", t, 400, {})
         /\ UNCHANGED dbVars
    ELSE /\ CanCreate
         /\ nextId' = nextId + 1
         /\ vitalSigns' = vitalSigns \cup
                {[id |-> nextId + 1, user |-> Authenticate(t), data |-> p]}
         /\ Respond("vitals/push", "POST", t, 201,
                    {VitalsItem([id |-> nextId + 1, user |-> Authenticate(t),
                                 data |-> p])})
         /\ UNCHANGED <<tokenOf, nextKey, emergencyContacts, outbox,
                        conversations, insights>>

\* the most recent recording: the row written last
LatestVitals ==
    CHOOSE v \in vitalSigns : \A w \in vitalSigns : w.id <= v.id

\* GET /api/vitals/pull/ (public): the most recent recording
VitalsPull(t) ==
    /\ IF vitalSigns = {}
       THEN Respond("vitals/pull", "GET", t, 404, {})
       ELSE Respond("vitals/pull", "GET", t, 200, {VitalsItem(LatestVitals)})
    /\ UNCHANGED dbVars

\* ------------------------------------------------------ backend: emergency
\* POST /api/emergency/contacts/
EmergencyContacts(t, email) ==
    IF Authenticate(t) = Anonymous
    THEN Unauthorized("emergency/contacts", "POST", t)
    ELSE /\ CanCreate
         /\ nextId' = nextId + 1
         /\ emergencyContacts' = emergencyContacts \cup
                {[id |-> nextId + 1, user |-> Authenticate(t), email |-> email]}
         /\ Respond("emergency/contacts", "POST", t, 200,
                    {ContactItem([user |-> Authenticate(t), email |-> email])})
         /\ UNCHANGED <<tokenOf, nextKey, vitalSigns, outbox, conversations,
                        insights>>

\* a faulty variant of EmergencySend: the contacts of every user are alerted
EmergencySendToAll(t) ==
    IF Authenticate(t) = Anonymous
    THEN Unauthorized("emergency/send", "POST", t)
    ELSE /\ outbox' = outbox \cup
                {[from |-> Authenticate(t), to |-> c.email] :
                    c \in emergencyContacts}
         /\ Respond("emergency/send", "POST", t, 200,
                    {[kind |-> "alert", owner |-> Authenticate(t),
                      count |-> Cardinality(emergencyContacts)]})
         /\ UNCHANGED <<tokenOf, nextKey, vitalSigns, emergencyContacts,
                        conversations, insights, nextId>>

\* POST /api/emergency/send/: one e-mail per registered contact of the caller
EmergencySend(t) ==
    IF Authenticate(t) = Anonymous
    THEN Unauthorized("emergency/send", "POST", t)
    ELSE /\ outbox' = outbox \cup
                {[from |-> Authenticate(t), to |-> c.email] :
                    c \in {x \in emergencyContacts : x.user = Authenticate(t)}}
         /\ Respond("emergency/send", "POST", t, 200,
                    {[kind |-> "alert", owner |-> Authenticate(t),
                      count |-> Cardinality({x \in emergencyContacts :
                                               x.user = Authenticate(t)})]})
         /\ UNCHANGED <<tokenOf, nextKey, vitalSigns, emergencyContacts,
                        conversations, insights, nextId>>

\* ------------------------------------------------------ backend: assistant
OwnConversation(u, id) == {c \in conversations : c.id = id /\ c.user = u}

\* a faulty variant of NewConversation: the row is not given its owner
NewConversationUnowned(u, id, msgs) ==
    [id |-> id, user |-> Anonymous, is_active |-> TRUE, messages |-> msgs]

NewConversation(u, id, msgs) ==
    [id |-> id, user |-> u, is_active |-> TRUE, messages |-> msgs]

UserMessage(text) == [role |-> "user", content |-> text]
AssistantMessage(text) == [role |-> "assistant", content |-> text]
AiReply == "reply"

\* a faulty variant of AppendMessages: the newest messages come first
PrependMessages(id, msgs) ==
    {IF c.id = id THEN [c EXCEPT !.messages = msgs \o c.messages] ELSE c :
        c \in conversations}

\* conversations with msgs appended to conversation id
AppendMessages(id, msgs) ==
    {IF c.id = id THEN [c EXCEPT !.messages = c.messages \o msgs] ELSE c :
        c \in conversations}

\* POST /api/assistant/chat/: validate, authenticate, get or create the
\* conversation, save the user message, call Gemini, save the reply
AssistantChat(t, message, cid, gemini) ==
    IF Authenticate(t) = Anonymous
    THEN Unauthorized("assistant/chat", "POST", t)
    ELSE IF message = ""
    THEN /\ Respond("assistant/chat", "POST", t, 400, {})
         /\ UNCHANGED dbVars
    ELSE IF cid # NoConversation /\ OwnConversation(Authenticate(t), Get(cid)) = {}
    THEN /\ Respond("assistant/chat", "POST", t, 404, {})
         /\ UNCHANGED dbVars
    ELSE LET u == Authenticate(t)
             id == IF cid = NoConversation THEN nextId + 1 ELSE Get(cid)
             saved == IF gemini = "connected"
                      THEN <<UserMessage(message), AssistantMessage(AiReply)>>
                      ELSE <<UserMessage(message)>>
         IN /\ IF cid = NoConversation
               THEN /\ CanCreate
                    /\ nextId' = nextId + 1
                    /\ conversations' = conversations \cup
                           {NewConversation(u, id, saved)}
               ELSE /\ \A c \in OwnConversation(u, id) :
                           Len(c.messages) + Len(saved) <= MaxMessages
                    /\ conversations' = AppendMessages(id, saved)
                    /\ UNCHANGED nextId
            /\ IF gemini = "connected"
               THEN Respond("assistant/chat", "POST", t, 200,
                            {[kind |-> "chat", owner |-> u,
                              conversation_id |-> id, response |-> AiReply]})
               ELSE Respond("assistant/chat", "POST", t, 503, {})
            /\ UNCHANGED <<tokenOf, nextKey, vitalSigns, emergencyContacts,
                           outbox, insights>>

\* GET /api/assistant/conversations/: the caller's conversations, optionally
\* filtered by is_active
ConversationList(t, is_active) ==
    IF Authenticate(t) = Anonymous
    THEN Unauthorized("assistant/conversations", "GET", t)
    ELSE /\ Respond("assistant/conversations", "GET", t, 200,
                    {ConversationItem(c) :
                        c \in {x \in conversations :
                                 /\ x.user = Authenticate(t)
                                 /\ is_active \in {None, Some(x.is_active)}}})
         /\ UNCHANGED dbVars

\* GET /api/assistant/conversations/{id}/
ConversationDetailGet(t, id) ==
    IF Authenticate(t) = Anonymous
    THEN Unauthorized("assistant/conversations/id", "GET", t)
    ELSE /\ IF OwnConversation(Authenticate(t), id) = {}
            THEN Respond("assistant/conversations/id", "GET", t, 404, {})
            ELSE Respond("assistant/conversations/id", "GET", t, 200,
                         {ConversationDetail(c) :
                             c \in OwnConversation(Authenticate(t), id)})
         /\ UNCHANGED dbVars

\* PUT /api/assistant/conversations/{id}/
ConversationDetailPut(t, id, is_active) ==
    IF Authenticate(t) = Anonymous
    THEN Unauthorized("assistant/conversations/id", "PUT", t)
    ELSE IF OwnConversation(Authenticate(t), id) = {}
    THEN /\ Respond("assistant/conversations/id", "PUT", t, 404, {})
         /\ UNCHANGED dbVars
    ELSE /\ conversations' =
                {IF c.id = id THEN [c EXCEPT !.is_active = is_active] ELSE c :
                    c \in conversations}
         /\ Respond("assistant/conversations/id", "PUT", t, 200,
                    {ConversationItem([c EXCEPT !.is_active = is_active]) :
                        c \in OwnConversation(Authenticate(t), id)})
         /\ UNCHANGED <<tokenOf, nextKey, vitalSigns, emergencyContacts,
                        outbox, insights, nextId>>

\* DELETE /api/assistant/conversations/{id}/: the row and, by cascade, its
\* messages
ConversationDetailDelete(t, id) ==
    IF Authenticate(t) = Anonymous
    THEN Unauthorized("assistant/conversations/id", "DELETE", t)
    ELSE IF OwnConversation(Authenticate(t), id) = {}
    THEN /\ Respond("assistant/conversations/id", "DELETE", t, 404, {})
         /\ UNCHANGED dbVars
    ELSE /\ conversations' =
                conversations \ OwnConversation(Authenticate(t), id)
         /\ Respond("assistant/conversations/id", "DELETE", t, 204, {})
         /\ UNCHANGED <<tokenOf, nextKey, vitalSigns, emergencyContacts,
                        outbox, insights, nextId>>

\* POST /api/assistant/health-summary/ and /wellness-recommendations/: the
\* generated text is stored as an insight and attached to the conversation
\* named by conversation_id, or to a new one
GenerateInsight(route, insight_type, t, cid, gemini) ==
    IF Authenticate(t) = Anonymous
    THEN Unauthorized(route, "POST", t)
    ELSE IF cid # NoConversation /\ OwnConversation(Authenticate(t), Get(cid)) = {}
    THEN /\ Respond(route, "POST", t, 404, {})
         /\ UNCHANGED dbVars
    ELSE IF gemini # "connected"
    THEN /\ Respond(route, "POST", t, 503, {})
         /\ UNCHANGED dbVars
    ELSE LET u == Authenticate(t)
             n == IF cid = NoConversation THEN nextId + 2 ELSE nextId + 1
             id == IF cid = NoConversation THEN nextId + 1 ELSE Get(cid)
         IN /\ n <= MaxRows
            /\ nextId' = n
            /\ conversations' =
                   IF cid = NoConversation
                   THEN conversations \cup {NewConversation(u, id, <<>>)}
                   ELSE conversations
            /\ insights' = insights \cup
                   {[id |-> n, user |-> u, insight_type |-> insight_type]}
            /\ Respond(route, "POST", t, 200,
                       {[kind |-> insight_type, owner |-> u,
                         conversation_id |-> id]})
            /\ UNCHANGED <<tokenOf, nextKey, vitalSigns, emergencyContacts,
                           outbox>>

HealthSummary(t, cid, gemini) ==
    GenerateInsight("assistant/health-summary", "summary", t, cid, gemini)

WellnessRecommendations(t, cid, gemini) ==
    GenerateInsight("assistant/wellness-recommendations", "recommendation",
                    t, cid, gemini)

\* GET /api/assistant/insights/
HealthInsights(t) ==
    IF Authenticate(t) = Anonymous
    THEN Unauthorized("assistant/insights", "GET", t)
    ELSE /\ Respond("assistant/insights", "GET", t, 200,
                    {InsightItem(i) :
                        i \in {x \in insights : x.user = Authenticate(t)}})
         /\ UNCHANGED dbVars

\* GET /api/assistant/tools/
AvailableTools(t) ==
    IF Authenticate(t) = Anonymous
    THEN Unauthorized("assistant/tools", "GET", t)
    ELSE /\ Respond("assistant/tools", "GET", t, 200, {})
         /\ UNCHANGED dbVars

\* a faulty variant of AssistantStatus: the route asks for a token
AssistantStatusProtected(t, gemini) ==
    IF Authenticate(t) = Anonymous
    THEN Unauthorized("assistant/status", "GET", t)
    ELSE /\ Respond("assistant/status", "GET", t,
                    IF gemini = "connected" THEN 200 ELSE 503, {})
         /\ UNCHANGED dbVars

\* GET /api/assistant/status/ (no authentication)
AssistantStatus(t, gemini) ==
    /\ Respond("assistant/status", "GET", t,
               IF gemini = "connected" THEN 200 ELSE 503, {})
    /\ UNCHANGED dbVars

\* ---------------------------------------------------- browser: assistantApi
Ok(status) == status >= 200 /\ status <= 299

\* a faulty variant of getHeaders: the Authorization header is never set
getHeadersBare == NoToken

\* getAuthToken / getHeaders: the Authorization header carries the stored
\* token when there is one
getAuthToken == localStorage.healix_token
getHeaders == IF getAuthToken # NoToken THEN getAuthToken ELSE NoToken

\* handleResponse: resolves with the body of an ok response, rejects with an
\* error carrying the status otherwise
handleResponse(fn, arg) ==
    apiCall' = IF Ok(response'.status)
               THEN [fn |-> fn, arg |-> arg, outcome |-> "resolved",
                     status |-> response'.status, value |-> response'.records]
               ELSE [fn |-> fn, arg |-> arg, outcome |-> "rejected",
                     status |-> response'.status, value |-> {}]

getConversations ==
    /\ ConversationList(getHeaders, None)
    /\ handleResponse("getConversations", None)
    /\ UNCHANGED <<localStorage, isLoggedIn, loginError, apiFrame>>

\* a faulty outcome: the status is not looked at
deleteConversationAlwaysResolves(status) == "resolved"

\* deleteConversation: throws when the response is not ok, resolves with
\* nothing otherwise
deleteConversationOutcome(status) ==
    IF ~Ok(status) THEN "rejected" ELSE "resolved"

deleteConversation(conversationId) ==
    /\ ConversationDetailDelete(getHeaders, conversationId)
    /\ apiCall' = [fn |-> "deleteConversation", arg |-> Some(conversationId),
                   outcome |-> deleteConversationOutcome(response'.status),
                   status |-> response'.status, value |-> {}]
    /\ UNCHANGED <<localStorage, isLoggedIn, loginError, apiFrame>>

\* the other functions of assistantApi: one request each, settled by
\* handleResponse
ClientCall(fn, arg) ==
    /\ handleResponse(fn, arg)
    /\ UNCHANGED <<localStorage, isLoggedIn, loginError, apiFrame>>

chatWithAssistant(message, cid, gemini) ==
    /\ AssistantChat(getHeaders, message, cid, gemini)
    /\ ClientCall("chatWithAssistant", cid)

getConversationDetail(conversationId) ==
    /\ ConversationDetailGet(getHeaders, conversationId)
    /\ ClientCall("getConversationDetail", Some(conversationId))

updateConversation(conversationId, is_active) ==
    /\ ConversationDetailPut(getHeaders, conversationId, is_active)
    /\ ClientCall("updateConversation", Some(conversationId))

generateHealthSummary(cid, gemini) ==
    /\ HealthSummary(getHeaders, cid, gemini)
    /\ ClientCall("generateHealthSummary", cid)

getWellnessRecommendations(cid, gemini) ==
    /\ WellnessRecommendations(getHeaders, cid, gemini)
    /\ ClientCall("getWellnessRecommendations", cid)

getHealthInsights ==
    /\ HealthInsights(getHeaders)
    /\ ClientCall("getHealthInsights", None)

getAvailableTools ==
    /\ AvailableTools(getHeaders)
    /\ ClientCall("getAvailableTools", None)

\* getAssistantStatus: the headers hold the content type alone
getAssistantStatus(gemini) ==
    /\ AssistantStatus(NoToken, gemini)
    /\ ClientCall("getAssistantStatus", None)

\* ----------------------------------------------------------- browser: Login
\* Login.handleSubmit: on an ok response the token and the user are stored
\* and onLogin shows the Dashboard; otherwise error is set
LoginHandleSubmit(username, password) ==
    /\ AuthLogin(username, password)
    /\ IF Ok(response'.status)
       THEN /\ localStorage' =
                  [healix_token |->
                       (CHOOSE r \in response'.records : TRUE).token,
                   healix_user |-> username]
            /\ isLoggedIn' = TRUE
            /\ loginError' = Null
       ELSE /\ loginError' = "Invalid username or password"
            /\ UNCHANGED <<localStorage, isLoggedIn>>
    /\ UNCHANGED <<apiCall, apiFrame>>

\* Login.handleSubmit up to the await of fetch; the inputs and the button
\* are disabled while isLoading
handleSubmit(username, password) ==
    /\ ~isLoggedIn
    /\ ~loginLoading
    /\ loginLoading' = TRUE
    /\ loginError' = Null
    /\ loginCall' = Some([username |-> username, password |-> password,
                          stage |-> "sent", status |-> 0, token |-> NoToken,
                          message |-> ""])
    /\ UNCHANGED <<localStorage, isLoggedIn, apiCall, settingsOpen, uncaught,
                   dbVars, httpVars, indexFrame>>

\* the backend answers the login; a response that is not ok throws
\* data.detail || "Invalid username or password"
handleSubmitServed ==
    /\ loginCall # None
    /\ Get(loginCall).stage = "sent"
    /\ AuthLogin(Get(loginCall).username, Get(loginCall).password)
    /\ loginCall' = Some(
           IF Ok(response'.status)
           THEN [Get(loginCall) EXCEPT
                    !.stage = "resolved", !.status = response'.status,
                    !.token = (CHOOSE r \in response'.records : TRUE).token]
           ELSE [Get(loginCall) EXCEPT
                    !.stage = "rejected", !.status = response'.status,
                    !.message = IF response'.detail # ""
                                THEN response'.detail
                                ELSE "Invalid username or password"])
    /\ UNCHANGED <<browserVars, loginLoading, settingsOpen, uncaught,
                   indexFrame>>

\* the login request fails in the network: fetch rejects
handleSubmitLost ==
    /\ loginCall # None
    /\ Get(loginCall).stage = "sent"
    /\ loginCall' = Some([Get(loginCall) EXCEPT
                             !.stage = "rejected",
                             !.message = "Failed to fetch"])
    /\ UNCHANGED <<browserVars, loginLoading, settingsOpen, uncaught, dbVars,
                   httpVars, indexFrame>>

\* a faulty variant of handleSubmitStores: the response is not tested
handleSubmitStoresAny ==
    /\ loginCall # None
    /\ Get(loginCall).stage \in {"resolved", "rejected"}
    /\ localStorage' = [healix_token |-> Get(loginCall).token,
                        healix_user |-> Get(loginCall).username]
    /\ loginCall' = Some([Get(loginCall) EXCEPT !.stage = "stored"])
    /\ UNCHANGED <<isLoggedIn, loginError, apiCall, loginLoading, settingsOpen,
                   uncaught, dbVars, httpVars, indexFrame>>

\* handleSubmit after an ok response: the token and the user are stored
handleSubmitStores ==
    /\ loginCall # None
    /\ Get(loginCall).stage = "resolved"
    /\ localStorage' = [healix_token |-> Get(loginCall).token,
                        healix_user |-> Get(loginCall).username]
    /\ loginCall' = Some([Get(loginCall) EXCEPT !.stage = "stored"])
    /\ UNCHANGED <<isLoggedIn, loginError, apiCall, loginLoading, settingsOpen,
                   uncaught, dbVars, httpVars, indexFrame>>

\* handleSubmit to its end: onLogin() of Index after the items were stored,
\* or the catch sets error; finally clears isLoading
handleSubmitDone ==
    /\ loginCall # None
    /\ Get(loginCall).stage \in {"stored", "rejected"}
    /\ IF Get(loginCall).stage = "stored"
       THEN /\ isLoggedIn' = TRUE
            /\ UNCHANGED loginError
       ELSE /\ loginError' = Get(loginCall).message
            /\ UNCHANGED isLoggedIn
    /\ loginLoading' = FALSE
    /\ loginCall' = None
    /\ UNCHANGED <<localStorage, apiCall, settingsOpen, uncaught, dbVars,
                   httpVars, indexFrame>>

\* ------------------------------------------------------- browser: Dashboard
\* the settings button of the Dashboard, which Index shows once logged in
toggleSettings ==
    /\ isLoggedIn
    /\ settingsOpen' = ~settingsOpen
    /\ UNCHANGED <<browserVars, loginLoading, loginCall, uncaught, dbVars,
                   httpVars, indexFrame>>

\* the Logout button of the settings menu: setSettingsOpen(false), then
\* onLogout(); Index renders <Dashboard key="dashboard" /> and passes no
\* onLogout, so the call throws and nothing of Index changes
DashboardLogout ==
    /\ isLoggedIn
    /\ settingsOpen
    /\ settingsOpen' = FALSE
    /\ uncaught' = Some("TypeError: onLogout is not a function")
    /\ UNCHANGED <<browserVars, loginLoading, loginCall, dbVars, httpVars,
                   indexFrame>>

\* ----------------------------------------------------- browser: VitalsModal
\* the temperatures the interval draws, in tenths of a degree:
\* parseFloat((36.4 + Math.random() * 0.4).toFixed(1))
TempLow == 364
TempHigh == 368
\* data.heart_rate || 72
DefaultHR == 72

Remove(seq, i) == SubSeq(seq, 1, i - 1) \o SubSeq(seq, i + 1, Len(seq))

\* fetchVitals up to the await of fetch: the request carries no Authorization
\* header
fetchVitals ==
    /\ Len(pulls) < MaxFetches
    /\ isLoading' = TRUE
    /\ vitalsError' = Null
    /\ pulls' = Append(pulls, [stage |-> "sent", status |-> 0, data |-> None])
    /\ UNCHANGED <<vitals, baseHR>>

\* the effect on [open]: opening the modal fetches and starts the interval
OpenVitals ==
    /\ ~vitalsOpen
    /\ vitalsOpen' = TRUE
    /\ fetchVitals
    /\ UNCHANGED <<dbVars, httpVars, modalFrame>>

\* closing clears the interval
CloseVitals ==
    /\ vitalsOpen
    /\ vitalsOpen' = FALSE
    /\ UNCHANGED <<vitals, isLoading, vitalsError, baseHR, pulls>>
    /\ UNCHANGED <<dbVars, httpVars, modalFrame>>

\* the Retry button of the error view
RetryVitals ==
    /\ vitalsOpen
    /\ ~isLoading
    /\ vitalsError # Null
    /\ fetchVitals
    /\ UNCHANGED vitalsOpen
    /\ UNCHANGED <<dbVars, httpVars, modalFrame>>

\* the interval: every 5 s the shown body temperature is replaced by a drawn
\* one
TemperatureTick ==
    /\ vitalsOpen
    /\ vitals # None
    /\ \E newTemp \in TempLow..TempHigh :
          vitals' = Some([Get(vitals) EXCEPT
                             !.data.body_temperature = Some(newTemp)])
    /\ UNCHANGED <<vitalsOpen, isLoading, vitalsError, baseHR, pulls>>
    /\ UNCHANGED <<dbVars, httpVars, modalFrame>>

\* the backend answers the fetch i
PullServed(i) ==
    /\ pulls[i].stage = "sent"
    /\ VitalsPull(NoToken)
    /\ pulls' = [pulls EXCEPT ![i] =
                    [stage |-> "answered", status |-> response'.status,
                     data |-> IF response'.records = {} THEN None
                              ELSE Some(CHOOSE r \in response'.records : TRUE)]]
    /\ UNCHANGED <<vitalsOpen, vitals, isLoading, vitalsError, baseHR>>
    /\ UNCHANGED modalFrame

\* the fetch i fails in the network
PullLost(i) ==
    /\ pulls[i].stage = "sent"
    /\ pulls' = [pulls EXCEPT ![i] =
                    [stage |-> "failed", status |-> 0, data |-> None]]
    /\ UNCHANGED <<vitalsOpen, vitals, isLoading, vitalsError, baseHR>>
    /\ UNCHANGED <<dbVars, httpVars, modalFrame>>

\* the base of the chart: data.heart_rate || 72
ChartBase(data) ==
    IF data.heart_rate = None \/ Get(data.heart_rate) = 0
    THEN DefaultHR
    ELSE Get(data.heart_rate)

\* a faulty variant of fetchedVitals: a record already shown is kept
keptVitals(prev, data) == IF prev = None THEN data ELSE prev

\* setVitals(data)
fetchedVitals(prev, data) == data

\* fetchVitals after the await: try, catch and finally
fetchVitalsDone(i) ==
    /\ pulls[i].stage \in {"answered", "failed"}
    /\ IF pulls[i].stage = "failed"
       THEN /\ vitalsError' = "Failed to fetch"
            /\ UNCHANGED <<vitals, baseHR>>
       ELSE IF ~Ok(pulls[i].status)
       THEN /\ vitalsError' = "Failed to pull telemetry from hardware."
            /\ UNCHANGED <<vitals, baseHR>>
       ELSE /\ vitals' = fetchedVitals(vitals, pulls[i].data)
            /\ baseHR' = ChartBase(Get(pulls[i].data).data)
            /\ UNCHANGED vitalsError
    /\ isLoading' = FALSE
    /\ pulls' = Remove(pulls, i)
    /\ UNCHANGED vitalsOpen
    /\ UNCHANGED <<dbVars, httpVars, modalFrame>>

\* a field of the JSON record: a number, null, or not there at all
JsNumber(n) == [kind |-> "number", value |-> n]
JsNull == [kind |-> "null", value |-> 0]
JsUndefined == [kind |-> "undefined", value |-> 0]

\* a > n and a < n of JavaScript for a number n: null converts to 0 and
\* undefined to NaN, which compares false
JsGreater(a, n) ==
    IF a.kind = "number" THEN a.value > n
    ELSE IF a.kind = "null" THEN 0 > n
    ELSE FALSE
JsLess(a, n) ==
    IF a.kind = "number" THEN a.value < n
    ELSE IF a.kind = "null" THEN 0 < n
    ELSE FALSE

\* the records tried; temperatures are in tenths of a degree
InsightInputs ==
    [heart_rate : {JsNull, JsUndefined, JsNumber(45), JsNumber(72),
                   JsNumber(110), JsNumber(125)},
     oxygen_saturation : {JsNull, JsUndefined, JsNumber(88), JsNumber(93),
                          JsNumber(98)},
     blood_pressure_systolic : {JsNull, JsNumber(120), JsNumber(140)},
     blood_pressure_diastolic : {JsNull, JsNumber(80), JsNumber(90)},
     body_temperature : {JsNull, JsNumber(366), JsNumber(381)}]

\* anomalies.push(name) when the test holds
Pushed(test, name) == IF test THEN <<name>> ELSE <<>>

\* generateAIInsight(data): the anomalies in the order they are pushed, and
\* which of the three texts is returned
generateAIInsight(data) ==
    LET anomalies ==
            Pushed(JsGreater(data.heart_rate, 100), "tachycardia")
            \o Pushed(JsLess(data.heart_rate, 50), "bradycardia")
            \o Pushed(JsLess(data.oxygen_saturation, 95),
                      "sub-optimal blood oxygen saturation")
            \o Pushed(JsGreater(data.blood_pressure_systolic, 130)
                          \/ JsGreater(data.blood_pressure_diastolic, 85),
                      "elevated blood pressure")
            \o Pushed(JsGreater(data.body_temperature, 375),
                      "a slight temperature elevation")
    IN [anomalies |-> anomalies,
        text |-> IF Len(anomalies) = 0 THEN "Telemetry is stable."
                 ELSE IF JsGreater(data.heart_rate, 120)
                         \/ JsLess(data.oxygen_saturation, 90)
                 THEN "CRITICAL ALERT"
                 ELSE "Helix anomaly detection triggered."]

\* the insight card is rendered for a record
RenderInsight(data) ==
    /\ insightData' = Some(data)
    /\ insight' = generateAIInsight(data)
    /\ UNCHANGED insightFrame

\* ---------------------------------------------------- backend: registration
\* Texts are sequences of lexemes; an underscore is a lexeme of its own.
Blank == <<>>
Digits == {"0", "1", "2", "3", "4", "5", "6", "7", "8", "9"}
\* the passwords tried: their characters
ShortPassword == <<"s", "h", "o", "r", "t">>
NumericPassword == <<"1", "2", "3", "4", "5", "6", "7", "8">>
GoodPassword == <<"S", "e", "c", "u", "r", "e", "1", "!">>
\* password validation: minimum length
MinPasswordLength == 8
\* User.first_name: maximum length
MaxNameLength == 150

\* a payload the backend accepts
GoodRegistration ==
    [username |-> <<"john", "_", "doe">>,
     email |-> <<"john", "@", "example.com">>,
     password |-> GoodPassword, password2 |-> GoodPassword,
     first_name |-> [text |-> <<"John">>, length |-> 4]]

\* the payloads tried: the good one and malformed variants of it
RegisterInputs ==
    {GoodRegistration,
     [GoodRegistration EXCEPT !.username = Blank,
                              !.email = <<"not-an-email">>],
     [GoodRegistration EXCEPT !.username = <<"alice">>],
     [GoodRegistration EXCEPT !.email = <<"alice", "@", "example.com">>],
     [GoodRegistration EXCEPT !.email = Blank],
     [GoodRegistration EXCEPT !.password = NumericPassword,
                              !.password2 = NumericPassword],
     [GoodRegistration EXCEPT !.password = ShortPassword,
                              !.password2 = ShortPassword],
     [GoodRegistration EXCEPT !.password2 = ShortPassword],
     [GoodRegistration EXCEPT !.first_name =
         [text |-> <<"J", "...">>, length |-> MaxNameLength + 1]]}

ValidEmail(e) == \E i \in 1..Len(e) : e[i] = "@" /\ 1 < i /\ i < Len(e)

\* the messages of one field: an array, empty when the field is accepted
UsernameErrors(p) ==
    IF p.username = Blank THEN << <<"This field may not be blank.">> >>
    ELSE IF \E a \in accounts : a.username = p.username
    THEN << <<"A user with that username already exists.">> >>
    ELSE <<>>

EmailErrors(p) ==
    IF p.email = Blank THEN << <<"This field may not be blank.">> >>
    ELSE IF ~ValidEmail(p.email) THEN << <<"Enter a valid email address.">> >>
    ELSE IF \E a \in accounts : a.email = p.email
    THEN << <<"This field must be unique.">> >>
    ELSE <<>>

PasswordErrors(p) ==
    IF p.password # p.password2
    THEN << <<"Password fields didn't match.">> >>
    ELSE (IF Len(p.password) < MinPasswordLength
          THEN << <<"This password is too short.">> >> ELSE <<>>)
         \o (IF \A i \in 1..Len(p.password) : p.password[i] \in Digits
             THEN << <<"This password is entirely numeric.">> >> ELSE <<>>)

FirstNameErrors(p) ==
    IF p.first_name.length > MaxNameLength
    THEN << <<"Ensure this field has no more than 150 characters.">> >>
    ELSE <<>>

\* the body of a 400: the rejected fields with their messages, in field order
RegisterErrors(p) ==
    SelectSeq(<< [key |-> <<"username">>, isArray |-> TRUE,
                  items |-> UsernameErrors(p)],
                 [key |-> <<"email">>, isArray |-> TRUE,
                  items |-> EmailErrors(p)],
                 [key |-> <<"password">>, isArray |-> TRUE,
                  items |-> PasswordErrors(p)],
                 [key |-> <<"first", "_", "name">>, isArray |-> TRUE,
                  items |-> FirstNameErrors(p)] >>,
              LAMBDA f : f.items # <<>>)

\* POST /api/auth/register/ (public)
AuthRegister(p) ==
    IF RegisterErrors(p) # <<>>
    THEN /\ response' = [route |-> "auth/register", method |-> "POST",
                         token |-> NoToken, status |-> 400,
                         user |-> Anonymous, detail |-> "",
                         errors |-> RegisterErrors(p), records |-> {}]
         /\ UNCHANGED accounts
    ELSE /\ accounts' = accounts \cup
                {[username |-> p.username, email |-> p.email]}
         /\ response' = [route |-> "auth/register", method |-> "POST",
                         token |-> NoToken, status |-> 201,
                         user |-> Anonymous, detail |-> "",
                         errors |-> <<>>, records |-> {}]

\* ---------------------------------------------------------- browser: Signup
\* errorMessage.replace("_", " "): the first underscore becomes a space
ReplaceUnderscore(text) ==
    IF \E i \in 1..Len(text) : text[i] = "_"
    THEN LET first == CHOOSE i \in 1..Len(text) :
                         /\ text[i] = "_"
                         /\ \A j \in 1..(i - 1) : text[j] # "_"
         IN [text EXCEPT ![first] = " "]
    ELSE text

\* a faulty variant of firstErrorKey: the last key of the body
lastErrorKey(data) == data[Len(data)]

\* Object.keys(data)[0] with its value
firstErrorKey(data) == data[1]

\* the message thrown for a response that is not ok
RegistrationFailure(data) ==
    firstErrorKey(data).key \o <<": ">> \o
        (IF firstErrorKey(data).isArray
         THEN firstErrorKey(data).items[1]
         ELSE <<"Registration failed. Please check your details.">>)

\* handleSubmit up to the await of fetch
SignupHandleSubmit(formData) ==
    /\ location = "/signup"
    /\ IF formData.password # formData.password2
       THEN /\ signupError' = Some(<<"Passwords do not match.">>)
            /\ UNCHANGED <<signupLoading, registrations>>
       ELSE IF Len(formData.password) < MinPasswordLength
       THEN /\ signupError' =
                  Some(<<"Password must be at least 8 characters long.">>)
            /\ UNCHANGED <<signupLoading, registrations>>
       ELSE /\ Len(registrations) < MaxFetches
            /\ signupLoading' = TRUE
            /\ signupError' = None
            /\ registrations' =
                  Append(registrations,
                         [stage |-> "sent", body |-> formData, status |-> 0,
                          data |-> <<>>])
    /\ UNCHANGED <<accounts, location, httpVars, signupFrame>>

\* the backend answers the fetch i
RegisterServed(i) ==
    /\ registrations[i].stage = "sent"
    /\ AuthRegister(registrations[i].body)
    /\ registrations' = [registrations EXCEPT ![i] =
                            [@ EXCEPT !.stage = "answered",
                                      !.status = response'.status,
                                      !.data = response'.errors]]
    /\ UNCHANGED <<location, signupError, signupLoading, signupFrame>>

\* the fetch i fails in the network
RegisterLost(i) ==
    /\ registrations[i].stage = "sent"
    /\ registrations' = [registrations EXCEPT ![i] = [@ EXCEPT !.stage = "failed"]]
    /\ UNCHANGED <<accounts, location, signupError, signupLoading, httpVars,
                   signupFrame>>

\* handleSubmit after the await: try, catch and finally
SignupDone(i) ==
    /\ registrations[i].stage \in {"answered", "failed"}
    /\ IF registrations[i].stage = "failed"
       THEN /\ signupError' = Some(ReplaceUnderscore(<<"Failed to fetch">>))
            /\ UNCHANGED location
       ELSE IF ~Ok(registrations[i].status)
       THEN /\ signupError' =
                  Some(ReplaceUnderscore(
                           RegistrationFailure(registrations[i].data)))
            /\ UNCHANGED location
       ELSE /\ location' = "/login"
            /\ UNCHANGED signupError
    /\ signupLoading' = FALSE
    /\ registrations' = Remove(registrations, i)
    /\ UNCHANGED <<accounts, httpVars, signupFrame>>

\* the link back to the Signup page: a new form
OpenSignup ==
    /\ location = "/login"
    /\ registrations = <<>>
    /\ location' = "/signup"
    /\ signupError' = None
    /\ signupLoading' = FALSE
    /\ UNCHANGED <<accounts, registrations, httpVars, signupFrame>>

\* ------------------------------------------------------- assistant: tools
\* the weights (kg) and heights (cm) tried
MinWeight == 60
MaxWeight == 76
Weights == MinWeight..MaxWeight
Heights == {150, 160, 175, 180, 200}

BuiltInTools ==
    {"calculate_bmi", "calculate_calorie_needs", "calculate_heart_rate_zones",
     "calculate_hydration_needs", "calculate_macro_split"}
CustomTools == {"analyze_bmi_trend"}
\* names Gemini may ask for: registered ones, and ones that never are
ToolNames == BuiltInTools \cup CustomTools \cup {"alert_caregiver", ""}

\* the keyword arguments tried for a tool name
ToolArguments(name) ==
    IF name = "calculate_bmi"
    THEN [weight : Weights, height : Heights]
    ELSE IF name = "calculate_heart_rate_zones"
    THEN [max_heart_rate : {180, 190}]
    ELSE IF name = "calculate_hydration_needs"
    THEN [weight : {MinWeight}, activity_level : {"sedentary", "moderate"}]
    ELSE {[user_id |-> 1, months |-> 6]}

\* a faulty BMI: the height is taken for metres
CalculateBmiMetres(weight, height) == (10 * weight) \div (height * height)

\* BMICalculatorTool.execute: weight in kilograms, height in centimetres; the
\* BMI in tenths, weight / (height / 100)^2 rounded to one decimal
CalculateBmi(weight, height) ==
    LET n == 100000 * weight
        d == height * height
        q == n \div d
    IN IF 2 * (n % d) < d THEN q
       ELSE IF 2 * (n % d) > d THEN q + 1
       ELSE IF q % 2 = 0 THEN q ELSE q + 1

\* the string a tool returns for its keyword arguments
ToolExecute(name, kwargs) ==
    IF name = "calculate_bmi"
    THEN [tool |-> name, bmi |-> CalculateBmi(kwargs.weight, kwargs.height)]
    ELSE [tool |-> name, of |-> kwargs]

\* a faulty dispatch: a failed first attempt is repeated
RegistryExecuteRetries(name, kwargs) ==
    /\ IF name \in registry
       THEN /\ invoked' = <<[tool |-> name, kwargs |-> kwargs],
                            [tool |-> name, kwargs |-> kwargs]>>
            /\ toolResult' = [kind |-> "result",
                              value |-> ToolExecute(name, kwargs)]
       ELSE /\ invoked' = <<>>
            /\ toolResult' = [kind |-> "error", value |-> [tool |-> name]]
    /\ UNCHANGED <<registry, toolFrame>>

\* ToolRegistry.execute(name, **kwargs): the registered tool runs once and
\* its string is the result; an unknown name is reported and nothing runs
RegistryExecute(name, kwargs) ==
    /\ IF name \in registry
       THEN /\ invoked' = <<[tool |-> name, kwargs |-> kwargs]>>
            /\ toolResult' = [kind |-> "result",
                              value |-> ToolExecute(name, kwargs)]
       ELSE /\ invoked' = <<>>
            /\ toolResult' = [kind |-> "error", value |-> [tool |-> name]]
    /\ UNCHANGED <<registry, toolFrame>>

\* assistant.register_custom_tool(tool)
RegisterCustomTool(name) ==
    /\ name \notin registry
    /\ registry' = registry \cup {name}
    /\ UNCHANGED <<invoked, toolResult, toolFrame>>

\* -------------------------------------------------------- browser: geminiApi
\* what Gemini may answer: an error, or a first part with an optional
\* functionCall and an optional text
GeminiResponses ==
    {[ok |-> FALSE, functionCall |-> None, text |-> None]}
    \cup [ok : {TRUE},
          functionCall :
              {None,
               Some([name |-> "alert_caregiver",
                     args |-> [reason |-> "chest pain",
                               urgencyLevel |-> "CRITICAL"]]),
               Some([name |-> "send_vitals_report",
                     args |-> [recipient_type |-> "doctor"]]),
               Some([name |-> "calculate_bmi",
                     args |-> [weight |-> MaxWeight, height |-> 180]])},
          text : {None, Some(<<" ">>), Some(<<" ", "Hello", " ">>)}]

\* String.prototype.trim on a text of lexemes
Trim(text) ==
    LET solid == {i \in 1..Len(text) : text[i] # " "}
    IN IF solid = {} THEN <<>>
       ELSE SubSeq(text, CHOOSE i \in solid : \A j \in solid : i <= j,
                         CHOOSE i \in solid : \A j \in solid : j <= i)

\* a faulty variant of BackendRoute: the second name is not compared
BackendRouteShares(call) ==
    IF call.name = "alert_caregiver" THEN Some("emergency/trigger/")
    ELSE Some("vitals/share/")

\* const { field } = call.args: undefined when args has no such field
Destructure(args, field) ==
    IF field \in DOMAIN args THEN args[field] ELSE "undefined"

\* the backend route a function call is sent to, if any
BackendRoute(call) ==
    IF call.name = "alert_caregiver" THEN Some("emergency/trigger/")
    ELSE IF call.name = "send_vitals_report" THEN Some("vitals/share/")
    ELSE None

\* the text returned once the backend request of a function call settled
FunctionCallReply(call) ==
    IF call.name = "alert_caregiver"
    THEN <<"**EMERGENCY PROTOCOL ACTIVATED**",
           Destructure(call.args, "reason")>>
    ELSE <<"**REPORT SHARED**", Destructure(call.args, "recipient_type")>>

\* generateGeminiReply up to the await in fetchLiveVitals; without an API key
\* it throws at once
generateGeminiReply(hasKey) ==
    /\ geminiStage = "idle"
    /\ IF ~hasKey
       THEN /\ geminiReply' = [outcome |-> "rejected",
                               text |-> <<"Missing Gemini API key.">>]
            /\ UNCHANGED <<geminiStage, sent>>
       ELSE /\ geminiStage' = "fetchLiveVitals"
            /\ sent' = <<[route |-> "vitals/pull/", method |-> "GET",
                          token |-> getHeaders]>>
            /\ UNCHANGED geminiReply
    /\ fetchOutcome' = Null
    /\ UNCHANGED <<liveVitals, geminiData, dbVars, httpVars, geminiFrame>>

\* fetchLiveVitals: the backend answers; the data of an ok response, else
\* null; then the Gemini request is sent
LiveVitalsServed ==
    /\ geminiStage = "fetchLiveVitals"
    /\ VitalsPull(getHeaders)
    /\ liveVitals' = IF Ok(response'.status)
                     THEN Some(CHOOSE r \in response'.records : TRUE)
                     ELSE None
    /\ geminiStage' = "gemini"
    /\ UNCHANGED <<geminiData, sent, geminiReply, fetchOutcome, geminiFrame>>

\* fetchLiveVitals: the fetch fails, the catch returns null
LiveVitalsLost ==
    /\ geminiStage = "fetchLiveVitals"
    /\ liveVitals' = None
    /\ geminiStage' = "gemini"
    /\ UNCHANGED <<geminiData, sent, geminiReply, fetchOutcome, dbVars, httpVars,
                   geminiFrame>>

\* the Gemini response arrives
GeminiAnswers(data) ==
    /\ geminiStage = "gemini"
    /\ geminiData' = Some(data)
    /\ IF ~data.ok
       THEN /\ geminiReply' = [outcome |-> "rejected",
                               text |-> <<"Gemini request failed">>]
            /\ geminiStage' = "idle"
            /\ UNCHANGED sent
       ELSE IF data.functionCall # None
               /\ BackendRoute(Get(data.functionCall)) # None
       THEN /\ sent' = Append(sent,
                          [route |-> Get(BackendRoute(Get(data.functionCall))),
                           method |-> "POST", token |-> getHeaders])
            /\ geminiStage' = "functionCall"
            /\ geminiReply' = [outcome |-> "pending",
                               text |-> FunctionCallReply(Get(data.functionCall))]
       ELSE IF data.text = None \/ Trim(Get(data.text)) = <<>>
       THEN /\ geminiReply' = [outcome |-> "rejected",
                               text |-> <<"Gemini returned an empty response.">>]
            /\ geminiStage' = "idle"
            /\ UNCHANGED sent
       ELSE /\ geminiReply' = [outcome |-> "resolved",
                               text |-> Trim(Get(data.text))]
            /\ geminiStage' = "idle"
            /\ UNCHANGED sent
    /\ UNCHANGED <<liveVitals, fetchOutcome, dbVars, httpVars, geminiFrame>>

\* how the fetch of a function call may settle: a response that is ok, a
\* response that is not, or a rejection that the catch logs
FetchOutcomes == {"ok", "not ok", "rejected"}

\* the backend request of a function call settles; the response is not
\* read and a rejection is only logged, so the text is returned whatever
\* the outcome
FunctionCallSettles(outcome) ==
    /\ geminiStage = "functionCall"
    /\ fetchOutcome' = outcome
    /\ geminiReply' = [geminiReply EXCEPT !.outcome = "resolved"]
    /\ geminiStage' = "idle"
    /\ UNCHANGED <<liveVitals, geminiData, sent, dbVars, httpVars, geminiFrame>>

\* ------------------------------------------------- browser: useConversation
\* the texts a caller hands to sendMessage
HookTexts == {<<>>, <<" ">>, <<" ", "hi">>}

\* the message the chat serializer reads from the body: a text of one word,
\* surrounding whitespace stripped
SerializedMessage(text) == IF Trim(text) = <<>> THEN "" ELSE Trim(text)[1]

\* a field of a JSON body
StringField(v) == Some([type |-> "string", value |-> v])
NumberField(v) == Some([type |-> "number", value |-> ToString(v)])
ErrorCode(status) ==
    IF status = 400 THEN "validation_error"
    ELSE IF status = 401 THEN "authentication_required"
    ELSE IF status = 404 THEN "not_found"
    ELSE "service_unavailable"
ErrorText(status) ==
    IF status = 400 THEN "Message must be between 1 and 5000 characters"
    ELSE IF status = 401 THEN "Authentication credentials were not provided."
    ELSE IF status = 404 THEN "Conversation not found"
    ELSE "Gemini API is currently unavailable. Please try again later."

\* the bodies an error response may carry: the documented format, a body
\* with the error code alone, one with neither field, one whose message is
\* not a string, one whose message is the empty string, and a body that is
\* not JSON
BodyShapes == {"documented", "code", "neither", "number", "empty", "html"}
ErrorBody(status, shape) ==
    [json |-> shape # "html",
     message |-> IF shape = "documented" THEN StringField(ErrorText(status))
                 ELSE IF shape = "number" THEN NumberField(status)
                 ELSE IF shape = "empty" THEN StringField("")
                 ELSE None,
     error |-> IF shape \in {"documented", "code", "empty"}
               THEN StringField(ErrorCode(status))
               ELSE None]

\* typeof f === "string" ? f : null, and the || that follows it
Truthy(field) ==
    field # None /\ Get(field).type = "string" /\ Get(field).value # ""

\* a faulty variant of ErrorMessage: the error code is preferred
ErrorMessageCodeFirst(status, body) ==
    IF body.json /\ Truthy(body.error) THEN <<Get(body.error).value>>
    ELSE IF body.json /\ Truthy(body.message) THEN <<Get(body.message).value>>
    ELSE <<"HTTP ", ToString(status)>>

\* handleResponse: the message of the error thrown for a response that is
\* not ok
ErrorMessage(status, body) ==
    IF body.json /\ Truthy(body.message) THEN <<Get(body.message).value>>
    ELSE IF body.json /\ Truthy(body.error) THEN <<Get(body.error).value>>
    ELSE <<"HTTP ", ToString(status)>>

UserText(text) == [role |-> "user", text |-> text]
AiText(text) == [role |-> "ai", text |-> text]

\* the payload of sendMessage: conversation_id is set when the state holds one
SendPayload(text) ==
    [message |-> text,
     conversation_id |-> conversationState.conversationId]

\* a faulty variant of sendMessage: a blank text is sent like any other
sendMessageUntested(text) ==
    /\ Len(chatCalls) < MaxFetches
    /\ Len(conversationState.messages) < MaxMessages
    /\ conversationState' =
           [conversationState EXCEPT
               !.isLoading = TRUE, !.isAiTyping = TRUE, !.error = None,
               !.messages = Append(@, UserText(text))]
    /\ chatCalls' = Append(chatCalls,
           [kind |-> "send", text |-> text,
            payload |-> SendPayload(text), headers |-> getHeaders,
            stage |-> "sent", status |-> 0,
            body |-> ErrorBody(0, "neither"), message |-> <<>>,
            conversation_id |-> 0, response |-> <<>>, loaded |-> <<>>])
    /\ UNCHANGED <<dbVars, httpVars, hookFrame>>

\* sendMessage up to the await in chatWithAssistant; a blank text only sets
\* the error
sendMessage(text) ==
    /\ IF Trim(text) = <<>>
       THEN /\ conversationState' =
                   [conversationState EXCEPT
                       !.error = Some(<<"Message cannot be empty">>)]
            /\ UNCHANGED chatCalls
       ELSE /\ Len(chatCalls) < MaxFetches
            /\ Len(conversationState.messages) < MaxMessages
            /\ conversationState' =
                   [conversationState EXCEPT
                       !.isLoading = TRUE, !.isAiTyping = TRUE,
                       !.error = None,
                       !.messages = Append(@, UserText(text))]
            /\ chatCalls' = Append(chatCalls,
                   [kind |-> "send", text |-> text,
                    payload |-> SendPayload(text), headers |-> getHeaders,
                    stage |-> "sent", status |-> 0,
                    body |-> ErrorBody(0, "neither"), message |-> <<>>,
                    conversation_id |-> 0, response |-> <<>>,
                    loaded |-> <<>>])
    /\ UNCHANGED <<dbVars, httpVars, hookFrame>>

\* the backend answers the request of call i; handleResponse resolves with
\* the body of an ok response and rejects otherwise
ChatServed(i, gemini, shape) ==
    /\ chatCalls[i].kind = "send"
    /\ chatCalls[i].stage = "sent"
    /\ AssistantChat(chatCalls[i].headers,
                     SerializedMessage(chatCalls[i].payload.message),
                     chatCalls[i].payload.conversation_id, gemini)
    /\ chatCalls' = [chatCalls EXCEPT ![i] =
           IF Ok(response'.status)
           THEN [@ EXCEPT !.stage = "resolved",
                    !.status = response'.status,
                    !.conversation_id =
                        (CHOOSE r \in response'.records : TRUE).conversation_id,
                    !.response =
                        <<(CHOOSE r \in response'.records : TRUE).response>>]
           ELSE [@ EXCEPT !.stage = "rejected",
                    !.status = response'.status,
                    !.body = ErrorBody(response'.status, shape),
                    !.message = ErrorMessage(response'.status,
                                    ErrorBody(response'.status, shape))]]
    /\ UNCHANGED <<conversationState, browserVars, hookFrame>>

\* the request of call i, of either kind, fails in the network: fetch
\* rejects
ChatLost(i) ==
    /\ chatCalls[i].stage = "sent"
    /\ chatCalls' = [chatCalls EXCEPT ![i] =
           [@ EXCEPT !.stage = "rejected", !.message = <<"Failed to fetch">>]]
    /\ UNCHANGED <<conversationState, dbVars, httpVars, hookFrame>>

\* messages.slice(0, -1)
DropLast(messages) == SubSeq(messages, 1, Len(messages) - 1)

\* a faulty variant of sendMessageDone: the catch leaves isAiTyping as it is
sendMessageDoneStillTyping(i) ==
    /\ chatCalls[i].kind = "send"
    /\ chatCalls[i].stage \in {"resolved", "rejected"}
    /\ conversationState' =
           IF chatCalls[i].stage = "resolved"
           THEN [conversationState EXCEPT
                    !.conversationId = Some(chatCalls[i].conversation_id),
                    !.messages = Append(@, AiText(chatCalls[i].response)),
                    !.isAiTyping = FALSE, !.isLoading = FALSE]
           ELSE [conversationState EXCEPT
                    !.error = Some(chatCalls[i].message),
                    !.messages = DropLast(@), !.isLoading = FALSE]
    /\ chatCalls' = Remove(chatCalls, i)
    /\ UNCHANGED <<dbVars, httpVars, hookFrame>>

\* sendMessage after the await: the reply is appended and the conversation
\* id stored, or the catch drops the last message; finally clears isLoading
sendMessageDone(i) ==
    /\ chatCalls[i].kind = "send"
    /\ chatCalls[i].stage \in {"resolved", "rejected"}
    /\ conversationState' =
           IF chatCalls[i].stage = "resolved"
           THEN [conversationState EXCEPT
                    !.conversationId = Some(chatCalls[i].conversation_id),
                    !.messages = Append(@, AiText(chatCalls[i].response)),
                    !.isAiTyping = FALSE, !.isLoading = FALSE]
           ELSE [conversationState EXCEPT
                    !.isAiTyping = FALSE,
                    !.error = Some(chatCalls[i].message),
                    !.messages = DropLast(@), !.isLoading = FALSE]
    /\ chatCalls' = Remove(chatCalls, i)
    /\ UNCHANGED <<dbVars, httpVars, hookFrame>>

\* loadConversation up to the await in getConversationDetail
loadConversation(conversationId) ==
    /\ Len(chatCalls) < MaxFetches
    /\ Cardinality({i \in 1..Len(chatCalls) : chatCalls[i].kind = "load"})
           < MaxLoads
    /\ conversationState' =
           [conversationState EXCEPT !.isLoading = TRUE, !.error = None]
    /\ chatCalls' = Append(chatCalls,
           [kind |-> "load", text |-> <<>>,
            payload |-> [message |-> <<>>,
                         conversation_id |-> Some(conversationId)],
            headers |-> getHeaders, stage |-> "sent", status |-> 0,
            body |-> ErrorBody(0, "neither"), message |-> <<>>,
            conversation_id |-> 0, response |-> <<>>, loaded |-> <<>>])
    /\ UNCHANGED <<dbVars, httpVars, hookFrame>>

\* the backend answers the request of the load i
LoadServed(i) ==
    /\ chatCalls[i].kind = "load"
    /\ chatCalls[i].stage = "sent"
    /\ ConversationDetailGet(chatCalls[i].headers,
                             Get(chatCalls[i].payload.conversation_id))
    /\ chatCalls' = [chatCalls EXCEPT ![i] =
           IF Ok(response'.status)
           THEN [@ EXCEPT !.stage = "resolved",
                    !.status = response'.status,
                    !.conversation_id =
                        (CHOOSE r \in response'.records : TRUE).id,
                    !.loaded =
                        (CHOOSE r \in response'.records : TRUE).messages]
           ELSE [@ EXCEPT !.stage = "rejected",
                    !.status = response'.status,
                    !.body = ErrorBody(response'.status, "documented"),
                    !.message = ErrorMessage(response'.status,
                                    ErrorBody(response'.status, "documented"))]]
    /\ UNCHANGED <<conversationState, browserVars, hookFrame>>

\* the messages of a conversation as the hook keeps them
HookMessages(messages) ==
    [k \in 1..Len(messages) |->
        [role |-> IF messages[k].role = "assistant" THEN "ai"
                  ELSE messages[k].role,
         text |-> <<messages[k].content>>]]

\* loadConversation after the await
loadConversationDone(i) ==
    /\ chatCalls[i].kind = "load"
    /\ chatCalls[i].stage \in {"resolved", "rejected"}
    /\ conversationState' =
           IF chatCalls[i].stage = "resolved"
           THEN [conversationState EXCEPT
                    !.conversationId = Some(chatCalls[i].conversation_id),
                    !.messages = HookMessages(chatCalls[i].loaded),
                    !.isLoading = FALSE]
           ELSE [conversationState EXCEPT
                    !.error = Some(chatCalls[i].message),
                    !.isLoading = FALSE]
    /\ chatCalls' = Remove(chatCalls, i)
    /\ UNCHANGED <<dbVars, httpVars, hookFrame>>

\* clearConversation: the local state is reset; calls in flight go on
clearConversation ==
    /\ conversationState' = [conversationId |-> None, messages |-> <<>>,
                             isLoading |-> FALSE, error |-> None,
                             isAiTyping |-> FALSE]
    /\ UNCHANGED <<chatCalls, dbVars, httpVars, hookFrame>>

\* startNewConversation(initialMessage): the state is reset to the initial
\* message alone, then sendMessage is called with it, whose updater runs on
\* the list already holding the message and whose payload reads the
\* conversationId of the last render; an empty initialMessage only resets
startNewConversation(initialMessage) ==
    /\ IF initialMessage = <<>>
       THEN /\ conversationState' =
                   [conversationState EXCEPT
                       !.conversationId = None, !.messages = <<>>,
                       !.error = None]
            /\ UNCHANGED chatCalls
       ELSE IF Trim(initialMessage) = <<>>
       THEN /\ conversationState' =
                   [conversationState EXCEPT
                       !.conversationId = None,
                       !.messages = <<UserText(initialMessage)>>,
                       !.error = Some(<<"Message cannot be empty">>)]
            /\ UNCHANGED chatCalls
       ELSE /\ Len(chatCalls) < MaxFetches
            /\ conversationState' =
                   [conversationState EXCEPT
                       !.conversationId = None,
                       !.messages = Append(<<UserText(initialMessage)>>,
                                           UserText(initialMessage)),
                       !.error = None,
                       !.isLoading = TRUE, !.isAiTyping = TRUE]
            /\ chatCalls' = Append(chatCalls,
                   [kind |-> "send", text |-> initialMessage,
                    payload |-> SendPayload(initialMessage),
                    headers |-> getHeaders, stage |-> "sent", status |-> 0,
                    body |-> ErrorBody(0, "neither"), message |-> <<>>,
                    conversation_id |-> 0, response |-> <<>>,
                    loaded |-> <<>>])
    /\ UNCHANGED <<dbVars, httpVars, hookFrame>>

\* ------------------------------ browser: useGeminiConversation, AIChatModal
\* no send is being called
NoHookCall == [fn |-> Null, text |-> <<>>]

\* how a generateGeminiReply call may settle: the trimmed text of Gemini, or
\* the message of the error thrown
GeminiReplies == {Trim(<<" ", "Hello", " ">>)}
GeminiFailures == {<<"Gemini request failed">>}

ClearedState ==
    [messages |-> <<>>, isLoading |-> FALSE, isAiTyping |-> FALSE,
     error |-> None]

\* useGeminiConversation.sendMessage up to the await in generateGeminiReply:
\* a blank text returns at once; payloadMessages is assigned by the state
\* updater, at once when React runs it eagerly and after the request was
\* built otherwise; `before` remembers the messages at the call
geminiSendMessage(text, eager) ==
    IF Trim(text) = <<>>
    THEN UNCHANGED <<geminiState, replyCalls>>
    ELSE /\ Len(replyCalls) < MaxFetches
         /\ Len(geminiState.messages) < MaxMessages
         /\ geminiState' =
                [geminiState EXCEPT
                    !.error = None, !.isLoading = TRUE, !.isAiTyping = TRUE,
                    !.messages = Append(@, UserText(Trim(text)))]
         /\ replyCalls' = Append(replyCalls,
                [text |-> Trim(text), before |-> geminiState.messages,
                 payload |-> IF eager
                             THEN Append(geminiState.messages,
                                         UserText(Trim(text)))
                             ELSE <<>>,
                 stage |-> "sent", reply |-> <<>>, message |-> <<>>])

\* the effect of the modal has run for the messages shown
EffectRan == effectLength = Len(geminiState.messages)

\* a component calls sendMessage of the hook
CallSendMessage(text, eager) ==
    /\ EffectRan
    /\ hookCall' = [fn |-> "sendMessage", text |-> text]
    /\ geminiSendMessage(text, eager)
    /\ UNCHANGED <<input, chatHistory, showHistory, effectLength,
                   chatModalFrame>>

\* the input's onChange; the input is disabled while loading and while an
\* error is shown
setInput(text) ==
    /\ EffectRan
    /\ ~geminiState.isLoading
    /\ geminiState.error = None
    /\ input' = text
    /\ hookCall' = NoHookCall
    /\ UNCHANGED <<geminiState, replyCalls, chatHistory, showHistory,
                   effectLength, chatModalFrame>>

\* AIChatModal.handleSend: nothing happens for a blank input or while
\* loading; else the input is cleared and the text handed to sendMessage
handleSend(eager) ==
    /\ EffectRan
    /\ hookCall' = [fn |-> "handleSend", text |-> input]
    /\ IF Trim(input) = <<>> \/ geminiState.isLoading
       THEN UNCHANGED <<input, geminiState, replyCalls>>
       ELSE /\ input' = <<>>
            /\ geminiSendMessage(input, eager)
    /\ UNCHANGED <<chatHistory, showHistory, effectLength, chatModalFrame>>

\* generateGeminiReply of call i resolves with a text
GeminiReplyResolves(i, text) ==
    /\ replyCalls[i].stage = "sent"
    /\ replyCalls' = [replyCalls EXCEPT ![i] =
           [@ EXCEPT !.stage = "resolved", !.reply = text]]
    /\ hookCall' = NoHookCall
    /\ UNCHANGED <<geminiState, input, chatHistory, showHistory, effectLength,
                   chatModalFrame>>

\* generateGeminiReply of call i throws
GeminiReplyRejects(i, message) ==
    /\ replyCalls[i].stage = "sent"
    /\ replyCalls' = [replyCalls EXCEPT ![i] =
           [@ EXCEPT !.stage = "rejected", !.message = message]]
    /\ hookCall' = NoHookCall
    /\ UNCHANGED <<geminiState, input, chatHistory, showHistory, effectLength,
                   chatModalFrame>>

\* useGeminiConversation.sendMessage after the await: the reply is appended,
\* or the catch stores the error and drops the last message
geminiSendMessageDone(i) ==
    /\ EffectRan
    /\ replyCalls[i].stage \in {"resolved", "rejected"}
    /\ geminiState' =
           IF replyCalls[i].stage = "resolved"
           THEN [geminiState EXCEPT
                    !.messages = Append(@, AiText(replyCalls[i].reply)),
                    !.isLoading = FALSE, !.isAiTyping = FALSE]
           ELSE [geminiState EXCEPT
                    !.error = Some(replyCalls[i].message),
                    !.isLoading = FALSE, !.isAiTyping = FALSE,
                    !.messages = DropLast(@)]
    /\ replyCalls' = Remove(replyCalls, i)
    /\ hookCall' = NoHookCall
    /\ UNCHANGED <<input, chatHistory, showHistory, effectLength,
                   chatModalFrame>>

\* a faulty variant of SavedMessages: the message typed last is left out
SavedMessagesButLast(messages) ==
    [k \in 1..Len(messages) - 1 |->
        [role |-> messages[k].role, text |-> messages[k].text]]

\* the roles and texts of the messages, as Clear Chat saves them
SavedMessages(messages) ==
    [k \in 1..Len(messages) |->
        [role |-> messages[k].role, text |-> messages[k].text]]

\* AIChatModal.handleClearChat: a conversation with messages is saved to
\* the history, then clearConversation resets the hook; calls in flight go
\* on
handleClearChat ==
    /\ EffectRan
    /\ IF Len(geminiState.messages) > 0
       THEN /\ Len(chatHistory) < MaxHistory
            /\ chatHistory' = Append(chatHistory,
                   [messages |-> SavedMessages(geminiState.messages)])
       ELSE UNCHANGED chatHistory
    /\ geminiState' = ClearedState
    /\ showHistory' = FALSE
    /\ hookCall' = NoHookCall
    /\ UNCHANGED <<replyCalls, input, effectLength, chatModalFrame>>

\* the Chat History button
toggleHistory ==
    /\ EffectRan
    /\ showHistory' = ~showHistory
    /\ hookCall' = NoHookCall
    /\ UNCHANGED <<geminiState, replyCalls, input, chatHistory, effectLength,
                   chatModalFrame>>

\* AIChatModal.handleLoadChat(chat) for the chat listed at position k
handleLoadChat(k) ==
    /\ EffectRan
    /\ showHistory
    /\ k \in 1..Len(chatHistory)
    /\ geminiState' = [ClearedState EXCEPT
                          !.messages = chatHistory[k].messages]
    /\ showHistory' = FALSE
    /\ hookCall' = NoHookCall
    /\ UNCHANGED <<replyCalls, input, chatHistory, effectLength,
                   chatModalFrame>>

\* the effect of the open modal, run after a render in which
\* messages.length changed: startNewConversation when there are no messages
OpenEffect ==
    /\ ~EffectRan
    /\ effectLength' = Len(geminiState.messages)
    /\ geminiState' = IF Len(geminiState.messages) = 0 THEN ClearedState
                      ELSE geminiState
    /\ hookCall' = NoHookCall
    /\ UNCHANGED <<replyCalls, input, chatHistory, showHistory, chatModalFrame>>

\* --------------------------------------- browser: EmergencyConnectionsModal
\* what the user typed into the name and e-mail inputs
NewNames == {<<"Jane">>}
NewEmails == {<<" ">>, <<"jane@example.com">>, <<" ", "joe@example.com">>}

\* `Token ${token}` with no token stored is "Token null": a key that was
\* never issued
NullKey == <<0>>
ModalToken ==
    IF localStorage.healix_token = NoToken THEN NullKey
    ELSE localStorage.healix_token

\* a faulty variant of ListedAfterSave: a contact is listed only when the
\* backend registered it
ListedWhenSaved(prev, contact, call) ==
    IF call.stage = "answered" /\ Ok(call.status) THEN Append(prev, contact)
    ELSE prev

\* the finally of addContact: the contact is listed whatever became of the
\* request
ListedAfterSave(prev, contact, call) == Append(prev, contact)

\* addContact up to the await of fetch; blank inputs return at once
addContact(newName, newEmail) ==
    /\ ~isAdding
    /\ IF Trim(newEmail) = <<>> \/ Trim(newName) = <<>>
       THEN UNCHANGED <<isAdding, alertError, successMsg, addCall>>
       ELSE /\ clock < MaxAdds
            /\ isAdding' = TRUE
            /\ alertError' = None
            /\ successMsg' = None
            /\ addCall' = Some([name |-> Trim(newName)[1],
                                email |-> Trim(newEmail)[1],
                                token |-> ModalToken, stage |-> "sent",
                                status |-> 0])
    /\ UNCHANGED <<contacts, storedContacts, isAlerting, alertCall, clock>>
    /\ UNCHANGED <<apiVars, contactFrame>>

\* the backend answers the request of addContact
ContactServed ==
    /\ addCall # None
    /\ Get(addCall).stage = "sent"
    /\ EmergencyContacts(Get(addCall).token, Get(addCall).email)
    /\ addCall' = Some([Get(addCall) EXCEPT !.stage = "answered",
                                            !.status = response'.status])
    /\ UNCHANGED <<contacts, storedContacts, isAdding, isAlerting,
                   alertError, successMsg, alertCall, clock>>
    /\ UNCHANGED <<browserVars, contactFrame>>

\* the request of addContact fails in the network
ContactLost ==
    /\ addCall # None
    /\ Get(addCall).stage = "sent"
    /\ addCall' = Some([Get(addCall) EXCEPT !.stage = "failed"])
    /\ UNCHANGED <<contacts, storedContacts, isAdding, isAlerting,
                   alertError, successMsg, alertCall, clock>>
    /\ UNCHANGED <<apiVars, contactFrame>>

\* addContact after the await: catch warns, finally lists the contact; the
\* effect on [contacts] stores the list
addContactDone ==
    /\ addCall # None
    /\ Get(addCall).stage \in {"answered", "failed"}
    /\ contacts' = ListedAfterSave(contacts,
                       [id |-> clock + 1, name |-> Get(addCall).name,
                        email |-> Get(addCall).email,
                        role |-> "Emergency Contact"],
                       Get(addCall))
    /\ storedContacts' = contacts'
    /\ clock' = clock + 1
    /\ successMsg' = Some(<<"Contact successfully secured in network.">>)
    /\ isAdding' = FALSE
    /\ addCall' = None
    /\ UNCHANGED <<isAlerting, alertError, alertCall>>
    /\ UNCHANGED <<apiVars, contactFrame>>

\* removeContact: the contact leaves the list; no request is sent
removeContact(id) ==
    /\ \E i \in 1..Len(contacts) : contacts[i].id = id
    /\ contacts' = SelectSeq(contacts, LAMBDA c : c.id # id)
    /\ storedContacts' = contacts'
    /\ UNCHANGED <<isAdding, isAlerting, alertError, successMsg, addCall,
                   alertCall, clock>>
    /\ UNCHANGED <<apiVars, contactFrame>>

\* triggerEmergencyAlert up to the await of fetch; the button is disabled
\* while an alert is under way and while no contact is listed
triggerEmergencyAlert ==
    /\ ~isAlerting
    /\ contacts # <<>>
    /\ isAlerting' = TRUE
    /\ alertError' = None
    /\ successMsg' = None
    /\ alertCall' = Some([token |-> ModalToken, stage |-> "sent",
                          status |-> 0, count |-> 0])
    /\ UNCHANGED <<contacts, storedContacts, isAdding, addCall, clock>>
    /\ UNCHANGED <<apiVars, contactFrame>>

\* the backend answers the alert
AlertServed ==
    /\ alertCall # None
    /\ Get(alertCall).stage = "sent"
    /\ EmergencySend(Get(alertCall).token)
    /\ alertCall' = Some([Get(alertCall) EXCEPT
           !.stage = "answered",
           !.status = response'.status,
           !.count = IF response'.records = {} THEN 0
                     ELSE (CHOOSE r \in response'.records : TRUE).count])
    /\ UNCHANGED <<contacts, storedContacts, isAdding, isAlerting,
                   alertError, successMsg, addCall, clock>>
    /\ UNCHANGED <<browserVars, contactFrame>>

\* the alert fails in the network
AlertLost ==
    /\ alertCall # None
    /\ Get(alertCall).stage = "sent"
    /\ alertCall' = Some([Get(alertCall) EXCEPT !.stage = "failed"])
    /\ UNCHANGED <<contacts, storedContacts, isAdding, isAlerting,
                   alertError, successMsg, addCall, clock>>
    /\ UNCHANGED <<apiVars, contactFrame>>

\* "Emergency alert sent to X contact(s)"
AlertMessage(count) ==
    <<"Emergency alert sent to ", ToString(count), " contact(s)">>

\* triggerEmergencyAlert after the await
triggerEmergencyAlertDone ==
    /\ alertCall # None
    /\ Get(alertCall).stage \in {"answered", "failed"}
    /\ IF Get(alertCall).stage = "answered" /\ Ok(Get(alertCall).status)
       THEN /\ successMsg' = Some(AlertMessage(Get(alertCall).count))
            /\ UNCHANGED alertError
       ELSE /\ alertError' =
                   Some(IF Get(alertCall).stage = "answered"
                        THEN <<"Backend server not responding.">>
                        ELSE <<"Failed to fetch">>)
            /\ UNCHANGED successMsg
    /\ isAlerting' = FALSE
    /\ alertCall' = None
    /\ UNCHANGED <<contacts, storedContacts, isAdding, addCall, clock>>
    /\ UNCHANGED <<apiVars, contactFrame>>

\* ----------------------------------------------------- assistant: context
\* Words a chat message may be made of.
MaxWords == 2

\* A query is a text of characters.
Vocabulary ==
    {<<"t", "i", "r", "e", "d">>, <<"h", "e", "a", "r", "t">>,
     <<"b", "l", "o", "o", "d">>, <<"p", "r", "e", "s", "s", "u", "r", "e">>,
     <<"i", "n", "t", "e", "r", "e", "s", "t">>, <<"d", "i", "e", "t">>,
     <<"h", "e", "l", "l", "o">>, <<"s", "l", "e", "e", "p">>,
     <<"w", "e", "i", "g", "h", "t">>, <<"p", "e", "r", "i", "o", "d">>,
     <<"w", "o", "r", "k", "o", "u", "t">>}

\* the words joined by single spaces
RECURSIVE JoinWords(_)
JoinWords(words) ==
    IF Len(words) = 0 THEN <<>>
    ELSE IF Len(words) = 1 THEN words[1]
    ELSE words[1] \o <<" ">> \o JoinWords(Tail(words))

Queries ==
    {JoinWords(words) :
        words \in UNION {[1..n -> Vocabulary] : n \in 1..MaxWords}}

\* keyword in text
Contains(text, keyword) ==
    \E i \in 1..(Len(text) - Len(keyword) + 1) :
        SubSeq(text, i, i + Len(keyword) - 1) = keyword

\* the keyword sets with the query each stands for
KeywordTable ==
    << [fn |-> "get_latest_vitals", days |-> 7,
        keywords |->
            {<<"v", "i", "t", "a", "l">>, <<"h", "e", "a", "r", "t">>,
             <<"b", "l", "o", "o", "d", " ", "p", "r", "e", "s", "s", "u", "r", "e">>}],
       [fn |-> "get_latest_physical_data", days |-> 0,
        keywords |->
            {<<"w", "e", "i", "g", "h", "t">>,
             <<"h", "e", "i", "g", "h", "t">>, <<"b", "o", "d", "y">>}],
       [fn |-> "get_fitness_summary", days |-> 7,
        keywords |->
            {<<"e", "x", "e", "r", "c", "i", "s", "e">>,
             <<"f", "i", "t", "n", "e", "s", "s">>,
             <<"w", "o", "r", "k", "o", "u", "t">>}],
       [fn |-> "get_nutrition_summary", days |-> 7,
        keywords |->
            {<<"n", "u", "t", "r", "i", "t", "i", "o", "n">>,
             <<"d", "i", "e", "t">>, <<"f", "o", "o", "d">>}],
       [fn |-> "get_sleep_summary", days |-> 7,
        keywords |->
            {<<"s", "l", "e", "e", "p">>, <<"r", "e", "s", "t">>,
             <<"t", "i", "r", "e", "d">>}],
       [fn |-> "get_reproductive_health_data", days |-> 30,
        keywords |->
            {<<"p", "e", "r", "i", "o", "d">>,
             <<"m", "e", "n", "s", "t", "r", "u", "a", "t", "i", "o", "n">>}] >>

ContextQuery(user, row) == [fn |-> row.fn, user |-> user, days |-> row.days]

Comprehensive(user) ==
    [fn |-> "get_comprehensive_health_context", user |-> user, days |-> 0]

\* the queries of the rows of the table, from row k on, whose keyword set
\* matches
RECURSIVE MatchedFrom(_, _, _)
MatchedFrom(user, query, k) ==
    IF k > Len(KeywordTable) THEN <<>>
    ELSE (IF \E keyword \in KeywordTable[k].keywords : Contains(query, keyword)
          THEN <<ContextQuery(user, KeywordTable[k])>>
          ELSE <<>>) \o MatchedFrom(user, query, k + 1)

\* a variant that follows the flow example of the RAG system: a match of the
\* sleep keywords also retrieves the vital signs
ContextWithVitals(user, query) ==
    IF MatchedFrom(user, query, 1) = <<>> THEN <<Comprehensive(user)>>
    ELSE IF \E i \in 1..Len(MatchedFrom(user, query, 1)) :
               MatchedFrom(user, query, 1)[i].fn = "get_sleep_summary"
    THEN MatchedFrom(user, query, 1)
             \o <<ContextQuery(user, KeywordTable[1])>>
    ELSE MatchedFrom(user, query, 1)

\* get_context_for_query(user, query): the parts of the context string
ContextForQuery(user, query) ==
    IF MatchedFrom(user, query, 1) = <<>> THEN <<Comprehensive(user)>>
    ELSE MatchedFrom(user, query, 1)

\* the chat view selects the context of a message
GetContextForQuery(user, query) ==
    /\ ragContext' = [user |-> user, query |-> query,
                      parts |-> ContextForQuery(user, query)]
    /\ UNCHANGED ragFrame

\* ------------------------------------------------------------- the REST API
NoResponse == [route |-> Null, method |-> Null, token |-> NoToken, status |-> 0,
               user |-> Anonymous, detail |-> "", errors |-> <<>>,
               records |-> {}]
NoCall == [fn |-> Null, arg |-> None, outcome |-> Null, status |-> 0,
           value |-> {}]

InitModal ==
    /\ vitalsOpen = FALSE
    /\ vitals = None
    /\ isLoading = FALSE
    /\ vitalsError = Null
    /\ baseHR = 0
    /\ pulls = <<>>

InitSignup ==
    /\ accounts = {[username |-> <<"alice">>,
                    email |-> <<"alice", "@", "example.com">>],
                   [username |-> <<"bob">>,
                    email |-> <<"bob", "@", "example.com">>]}
    /\ location = "/signup"
    /\ signupError = None
    /\ signupLoading = FALSE
    /\ registrations = <<>>

InitTools ==
    /\ registry = BuiltInTools
    /\ invoked = <<>>
    /\ toolResult = [kind |-> Null, value |-> [tool |-> Null]]

InitGemini ==
    /\ geminiStage = "idle"
    /\ liveVitals = None
    /\ geminiData = None
    /\ sent = <<>>
    /\ geminiReply = [outcome |-> Null, text |-> <<>>]
    /\ fetchOutcome = Null

InitRag ==
    ragContext = [user |-> Anonymous, query |-> <<>>, parts |-> <<>>]

InitHook ==
    /\ conversationState = [conversationId |-> None, messages |-> <<>>,
                            isLoading |-> FALSE, error |-> None,
                            isAiTyping |-> FALSE]
    /\ chatCalls = <<>>

InitContacts ==
    /\ contacts = <<>>
    /\ storedContacts = <<>>
    /\ isAdding = FALSE
    /\ isAlerting = FALSE
    /\ alertError = None
    /\ successMsg = None
    /\ addCall = None
    /\ alertCall = None
    /\ clock = 0

InitChatModal ==
    /\ geminiState = [messages |-> <<>>, isLoading |-> FALSE,
                      isAiTyping |-> FALSE, error |-> None]
    /\ replyCalls = <<>>
    /\ input = <<>>
    /\ chatHistory = <<>>
    /\ showHistory = FALSE
    /\ effectLength = 0
    /\ hookCall = NoHookCall

InitIndex ==
    /\ loginLoading = FALSE
    /\ loginCall = None
    /\ settingsOpen = FALSE
    /\ uncaught = None

InitInsight ==
    /\ insightData = None
    /\ insight = [anomalies |-> <<>>, text |-> Null]

InitApi ==
    /\ InitRag
    /\ InitInsight
    /\ InitIndex
    /\ InitChatModal
    /\ InitContacts
    /\ InitHook
    /\ InitModal
    /\ InitSignup
    /\ InitTools
    /\ InitGemini
    /\ tokenOf = [u \in Users |-> NoToken]
    /\ nextKey = 0
    /\ vitalSigns = {}
    /\ emergencyContacts = {}
    /\ outbox = {}
    /\ conversations = {}
    /\ insights = {}
    /\ nextId = 0
    /\ response = NoResponse
    /\ localStorage = [healix_token |-> NoToken, healix_user |-> Null]
    /\ isLoggedIn = FALSE
    /\ loginError = Null
    /\ apiCall = NoCall

\* requests any client may send: the auth routes
AuthRequest(users) ==
    \/ \E u \in users, p \in Passwords :
             /\ AuthLogin(u, p)
             /\ UNCHANGED <<browserVars, apiFrame>>
    \/ \E t \in TokenInputs :
             /\ AuthLogout(t)
             /\ UNCHANGED <<browserVars, apiFrame>>
    \/ \E t \in TokenInputs :
             /\ AuthProfile(t)
             /\ UNCHANGED <<browserVars, apiFrame>>

\* the vitals and emergency routes
HealthRequest ==
    \/ \E t \in TokenInputs, p \in VitalsInputs :
             /\ VitalsPush(t, p)
             /\ UNCHANGED <<browserVars, apiFrame>>
    \/ \E t \in TokenInputs :
             /\ VitalsPull(t)
             /\ UNCHANGED <<browserVars, apiFrame>>
    \/ \E t \in TokenInputs, e \in ContactEmails :
             /\ EmergencyContacts(t, e)
             /\ UNCHANGED <<browserVars, apiFrame>>
    \/ \E t \in TokenInputs :
             /\ EmergencySend(t)
             /\ UNCHANGED <<browserVars, apiFrame>>

\* the assistant routes
AssistantRequest(gemini) ==
    \/ \E t \in TokenInputs, m \in ChatMessages,
          cid \in ConversationIdInputs, g \in gemini :
             /\ AssistantChat(t, m, cid, g)
             /\ UNCHANGED <<browserVars, apiFrame>>
    \/ \E t \in TokenInputs, a \in ActiveFilters :
             /\ ConversationList(t, a)
             /\ UNCHANGED <<browserVars, apiFrame>>
    \/ \E t \in TokenInputs, id \in ConversationIds :
             /\ ConversationDetailGet(t, id)
             /\ UNCHANGED <<browserVars, apiFrame>>
    \/ \E t \in TokenInputs, id \in ConversationIds, a \in BOOLEAN :
             /\ ConversationDetailPut(t, id, a)
             /\ UNCHANGED <<browserVars, apiFrame>>
    \/ \E t \in TokenInputs, id \in ConversationIds :
             /\ ConversationDetailDelete(t, id)
             /\ UNCHANGED <<browserVars, apiFrame>>
    \/ \E t \in TokenInputs, cid \in ConversationIdInputs, g \in gemini :
             /\ HealthSummary(t, cid, g)
             /\ UNCHANGED <<browserVars, apiFrame>>
    \/ \E t \in TokenInputs, cid \in ConversationIdInputs, g \in gemini :
             /\ WellnessRecommendations(t, cid, g)
             /\ UNCHANGED <<browserVars, apiFrame>>
    \/ \E t \in TokenInputs :
             /\ HealthInsights(t)
             /\ UNCHANGED <<browserVars, apiFrame>>
    \/ \E t \in TokenInputs :
             /\ AvailableTools(t)
             /\ UNCHANGED <<browserVars, apiFrame>>
    \/ \E t \in TokenInputs, g \in gemini :
             /\ AssistantStatus(t, g)
             /\ UNCHANGED <<browserVars, apiFrame>>

\* Every route, one account logging in and out.
NextAuth ==
    \/ AuthRequest({"alice"})
    \/ HealthRequest
    \/ AssistantRequest(Gemini)

SpecAuth == InitApi /\ [][NextAuth]_vars

\* Every route that reads or writes rows, two accounts, Gemini connected.
NextApi ==
    \/ AuthRequest(Users)
    \/ HealthRequest
    \/ AssistantRequest({"connected"})

SpecApi == InitApi /\ [][NextApi]_vars

\* a request of some other client of the API
OtherClient ==
    \/ \E u \in Users :
             /\ AuthLogin(u, "right")
             /\ UNCHANGED <<browserVars, apiFrame>>
    \/ \E t \in TokenInputs, m \in ChatMessages, cid \in ConversationIdInputs :
             /\ AssistantChat(t, m, cid, "connected")
             /\ UNCHANGED <<browserVars, apiFrame>>
    \/ \E t \in TokenInputs, id \in ConversationIds :
             /\ ConversationDetailDelete(t, id)
             /\ UNCHANGED <<browserVars, apiFrame>>

\* The browser's assistantApi calls beside the requests of other clients.
NextBrowser ==
    \/ \E u \in Users, p \in Passwords : LoginHandleSubmit(u, p)
    \/ getConversations
    \/ \E id \in ConversationIds : deleteConversation(id)
    \/ OtherClient

SpecBrowser == InitApi /\ [][NextBrowser]_vars

\* The VitalsModal beside a device that pushes vitals.
NextVitals ==
    \/ /\ AuthLogin("alice", "right")
       /\ UNCHANGED <<browserVars, apiFrame>>
    \/ \E t \in TokenInputs, p \in VitalsInputs :
          /\ VitalsPush(t, p)
          /\ UNCHANGED <<browserVars, apiFrame>>
    \/ OpenVitals
    \/ CloseVitals
    \/ RetryVitals
    \/ TemperatureTick
    \/ \E i \in 1..MaxFetches : i <= Len(pulls) /\ PullServed(i)
    \/ \E i \in 1..MaxFetches : i <= Len(pulls) /\ PullLost(i)
    \/ \E i \in 1..MaxFetches : i <= Len(pulls) /\ fetchVitalsDone(i)

SpecVitals == InitApi /\ [][NextVitals]_vars

\* The Signup page beside other clients that register.
NextSignup ==
    \/ \E formData \in RegisterInputs : SignupHandleSubmit(formData)
    \/ \E i \in 1..MaxFetches : i <= Len(registrations) /\ RegisterServed(i)
    \/ \E i \in 1..MaxFetches : i <= Len(registrations) /\ RegisterLost(i)
    \/ \E i \in 1..MaxFetches : i <= Len(registrations) /\ SignupDone(i)
    \/ OpenSignup
    \/ \E p \in RegisterInputs :
          /\ AuthRegister(p)
          /\ UNCHANGED <<location, signupError, signupLoading, registrations,
                         signupFrame>>

SpecSignup == InitApi /\ [][NextSignup]_vars

\* Tool dispatch in the backend.
NextTools ==
    \/ \E name \in ToolNames : \E kwargs \in ToolArguments(name) :
          RegistryExecute(name, kwargs)
    \/ \E name \in CustomTools : RegisterCustomTool(name)

SpecTools == InitApi /\ [][NextTools]_vars

\* The function calls of the browser's Gemini client beside the tool
\* dispatch of the backend.
NextGemini ==
    \/ LoginHandleSubmit("alice", "right")
    \/ /\ VitalsPush(<<1>>, CHOOSE p \in ValidVitals : p.heart_rate # None)
       /\ UNCHANGED <<browserVars, apiFrame>>
    \/ \E hasKey \in BOOLEAN : generateGeminiReply(hasKey)
    \/ LiveVitalsServed
    \/ LiveVitalsLost
    \/ \E data \in GeminiResponses : GeminiAnswers(data)
    \/ \E outcome \in FetchOutcomes : FunctionCallSettles(outcome)
    \/ \E name \in ToolNames :
          RegistryExecute(name, CHOOSE kwargs \in ToolArguments(name) : TRUE)
    \/ \E name \in CustomTools : RegisterCustomTool(name)

SpecGemini == InitApi /\ [][NextGemini]_vars

\* Context selection for chat messages.
NextRag == \E user \in Users, query \in Queries : GetContextForQuery(user, query)

SpecRag == InitApi /\ [][NextRag]_vars

\* The chat hook of one browser.
NextChat ==
    \/ /\ localStorage.healix_token = NoToken
       /\ LoginHandleSubmit("alice", "right")
    \/ \E text \in HookTexts : sendMessage(text)
    \/ \E i \in 1..Len(chatCalls), g \in Gemini :
          ChatServed(i, g, "documented")
    \/ \E i \in 1..Len(chatCalls) : ChatLost(i)
    \/ \E i \in 1..Len(chatCalls) : sendMessageDone(i)
    \/ clearConversation
    \/ \E id \in ConversationIds : loadConversation(id)
    \/ \E i \in 1..Len(chatCalls) : LoadServed(i)
    \/ \E i \in 1..Len(chatCalls) : loadConversationDone(i)

SpecChat == InitApi /\ [][NextChat]_vars

\* The chat hook sending messages, with every body an error response may
\* carry.
NextChatErrors ==
    \/ /\ localStorage.healix_token = NoToken
       /\ LoginHandleSubmit("alice", "right")
    \/ \E text \in HookTexts : sendMessage(text)
    \/ \E i \in 1..Len(chatCalls), g \in Gemini, shape \in BodyShapes :
          ChatServed(i, g, shape)
    \/ \E i \in 1..Len(chatCalls) : ChatLost(i)
    \/ \E i \in 1..Len(chatCalls) : sendMessageDone(i)

SpecChatErrors == InitApi /\ [][NextChatErrors]_vars

\* The Emergency Connections modal of alice's browser, and bob registering
\* contacts and raising alerts from another client.
NextContacts ==
    \/ /\ localStorage.healix_token = NoToken
       /\ LoginHandleSubmit("alice", "right")
    \/ \E newName \in NewNames, newEmail \in NewEmails :
          addContact(newName, newEmail)
    \/ ContactServed
    \/ ContactLost
    \/ addContactDone
    \/ \E id \in 1..MaxAdds : removeContact(id)
    \/ triggerEmergencyAlert
    \/ AlertServed
    \/ AlertLost
    \/ triggerEmergencyAlertDone
    \/ /\ tokenOf["bob"] = NoToken
       /\ AuthLogin("bob", "right")
       /\ UNCHANGED <<browserVars, apiFrame>>
    \/ \E newEmail \in NewEmails :
          /\ tokenOf["bob"] # NoToken
          /\ Trim(newEmail) # <<>>
          /\ EmergencyContacts(tokenOf["bob"], Trim(newEmail)[1])
          /\ UNCHANGED <<browserVars, apiFrame>>
    \/ /\ tokenOf["bob"] # NoToken
       /\ EmergencySend(tokenOf["bob"])
       /\ UNCHANGED <<browserVars, apiFrame>>

SpecContacts == InitApi /\ [][NextContacts]_vars

\* Every function of assistantApi, called before and after logging in.
NextClient ==
    \/ \E p \in Passwords :
          /\ ~isLoggedIn
          /\ LoginHandleSubmit("alice", p)
    \/ \E cid \in ConversationIdInputs :
          chatWithAssistant("hi", cid, "connected")
    \/ getConversations
    \/ \E id \in ConversationIds : getConversationDetail(id)
    \/ \E id \in ConversationIds, a \in BOOLEAN : updateConversation(id, a)
    \/ \E id \in ConversationIds : deleteConversation(id)
    \/ \E cid \in ConversationIdInputs :
          generateHealthSummary(cid, "connected")
    \/ \E cid \in ConversationIdInputs :
          getWellnessRecommendations(cid, "connected")
    \/ getHealthInsights
    \/ getAvailableTools
    \/ \E g \in Gemini : getAssistantStatus(g)

SpecClient == InitApi /\ [][NextClient]_vars

\* Index: the Login screen, then the Dashboard and its settings menu; a
\* second client holds or gives up keys of its own.
NextIndex ==
    \/ \E username \in Users, password \in Passwords :
          handleSubmit(username, password)
    \/ handleSubmitServed
    \/ handleSubmitLost
    \/ handleSubmitStores
    \/ handleSubmitDone
    \/ toggleSettings
    \/ DashboardLogout
    \/ \E t \in TokenInputs :
          /\ AuthLogout(t)
          /\ UNCHANGED <<browserVars, apiFrame>>

SpecIndex == InitApi /\ [][NextIndex]_vars

\* The insight card over the records a pull may return.
NextInsight == \E data \in InsightInputs : RenderInsight(data)

SpecInsight == InitApi /\ [][NextInsight]_vars

\* useConversation with conversations started anew.
NextNewChat ==
    \/ /\ localStorage.healix_token = NoToken
       /\ LoginHandleSubmit("alice", "right")
    \/ \E text \in HookTexts : sendMessage(text)
    \/ \E text \in HookTexts : startNewConversation(text)
    \/ \E i \in 1..Len(chatCalls), g \in Gemini : ChatServed(i, g, "documented")
    \/ \E i \in 1..Len(chatCalls) : ChatLost(i)
    \/ \E i \in 1..Len(chatCalls) : sendMessageDone(i)

SpecNewChat == InitApi /\ [][NextNewChat]_vars

\* Both hooks with their requests, each of which settles in the end.
NextLive ==
    \/ /\ localStorage.healix_token = NoToken
       /\ LoginHandleSubmit("alice", "right")
    \/ sendMessage(<<" ", "hi">>)
    \/ \E i \in 1..Len(chatCalls) : ChatServed(i, "connected", "documented")
    \/ \E i \in 1..Len(chatCalls) : ChatLost(i)
    \/ \E i \in 1..Len(chatCalls) : sendMessageDone(i)
    \/ loadConversation(1)
    \/ \E i \in 1..Len(chatCalls) : LoadServed(i)
    \/ \E i \in 1..Len(chatCalls) : loadConversationDone(i)
    \/ CallSendMessage(<<" ", "hi">>, TRUE)
    \/ \E i \in 1..Len(replyCalls), text \in GeminiReplies :
          GeminiReplyResolves(i, text)
    \/ \E i \in 1..Len(replyCalls), message \in GeminiFailures :
          GeminiReplyRejects(i, message)
    \/ \E i \in 1..Len(replyCalls) : geminiSendMessageDone(i)
    \/ OpenEffect

\* the request of the call at position i settles
ChatSettles(i) ==
    /\ i \in 1..Len(chatCalls)
    /\ \/ ChatServed(i, "connected", "documented")
       \/ LoadServed(i)
       \/ ChatLost(i)
ReplySettles(i) ==
    /\ i \in 1..Len(replyCalls)
    /\ \/ \E text \in GeminiReplies : GeminiReplyResolves(i, text)
       \/ \E message \in GeminiFailures : GeminiReplyRejects(i, message)
\* the code after the await of the call at position i runs
ChatContinues(i) ==
    /\ i \in 1..Len(chatCalls)
    /\ (sendMessageDone(i) \/ loadConversationDone(i))
ReplyContinues(i) ==
    /\ i \in 1..Len(replyCalls)
    /\ geminiSendMessageDone(i)

\* every request settles, the code after an await runs, and so does an
\* effect that is due
Fairness ==
    /\ \A i \in 1..MaxFetches :
          /\ WF_vars(ChatSettles(i))
          /\ WF_vars(ChatContinues(i))
          /\ WF_vars(ReplySettles(i))
          /\ WF_vars(ReplyContinues(i))
    /\ WF_vars(OpenEffect)

SpecLive == InitApi /\ [][NextLive]_vars /\ Fairness

\* The AIChatModal over useGeminiConversation, as its user drives it.
NextModalChat ==
    \/ \E text \in HookTexts : setInput(text)
    \/ \E eager \in BOOLEAN : handleSend(eager)
    \/ \E i \in 1..Len(replyCalls), text \in GeminiReplies :
          GeminiReplyResolves(i, text)
    \/ \E i \in 1..Len(replyCalls), message \in GeminiFailures :
          GeminiReplyRejects(i, message)
    \/ \E i \in 1..Len(replyCalls) : geminiSendMessageDone(i)
    \/ handleClearChat
    \/ toggleHistory
    \/ \E k \in 1..Len(chatHistory) : handleLoadChat(k)
    \/ OpenEffect

SpecModalChat == InitApi /\ [][NextModalChat]_vars

\* The three ways a text reaches the assistant: sendMessage of either hook
\* and the modal's Send.
NextSend ==
    \/ \E text \in HookTexts : sendMessage(text)
    \/ \E i \in 1..Len(chatCalls) : ChatLost(i)
    \/ \E i \in 1..Len(chatCalls) : sendMessageDone(i)
    \/ \E text \in HookTexts, eager \in BOOLEAN : CallSendMessage(text, eager)
    \/ \E text \in HookTexts : setInput(text)
    \/ \E eager \in BOOLEAN : handleSend(eager)
    \/ \E i \in 1..Len(replyCalls), text \in GeminiReplies :
          GeminiReplyResolves(i, text)
    \/ \E i \in 1..Len(replyCalls), message \in GeminiFailures :
          GeminiReplyRejects(i, message)
    \/ \E i \in 1..Len(replyCalls) : geminiSendMessageDone(i)
    \/ OpenEffect

SpecSend == InitApi /\ [][NextSend]_vars

\* ------------------------------------------------------------ authentication
\* t is the key of some user
IsStoredKey(t) == t # NoToken /\ \E u \in Users : tokenOf[u] = t

\* t is a key that was issued and has been deleted by a logout
LoggedOut(t) == t # NoToken /\ Get(t) <= nextKey /\ ~IsStoredKey(t)

\* the routes that require a token
ProtectedRoutes ==
    {"auth/logout", "auth/profile", "vitals/push", "emergency/contacts",
     "emergency/send", "assistant/chat", "assistant/conversations",
     "assistant/conversations/id", "assistant/health-summary",
     "assistant/wellness-recommendations", "assistant/insights",
     "assistant/tools"}

\* C2: a request to a protected route (vitals push, emergency contacts and
\* send, auth logout and profile, every assistant route but status) whose
\* header carries no token, or a key that is not stored, is answered 401 and
\* leaves every table as it was.
ProtectedRoutesAnswer401 ==
    [][(response'.route \in ProtectedRoutes /\ ~IsStoredKey(response'.token)) =>
           /\ response'.status = 401
           /\ UNCHANGED dbVars]_vars

\* a key that is not stored was presented to a route that writes rows and
\* refused, while rows are stored
RefusedWithRowsStored ==
    /\ response.status = 401
    /\ response.route = "assistant/conversations/id"
    /\ response.method = "DELETE"
    /\ response.token # NoToken
    /\ vitalSigns # {}
    /\ conversations # {}

\* a step that is a logout with key t
IsLogout(t) ==
    /\ response'.route = "auth/logout"
    /\ response'.token = t
    /\ response' # response

\* C10: a stored key stays stored through every step that is not a logout
\* with that key; a logout with a stored key is answered 200 and deletes it;
\* a request that presents a deleted key to a protected route is answered
\* 401; and a key that is not stored becomes stored only by a login.
TokenValidUntilLogout ==
    /\ [][\A u \in Users :
             (tokenOf[u] # NoToken /\ ~IsLogout(tokenOf[u])) =>
                 tokenOf'[u] = tokenOf[u]]_vars
    /\ [][\A t \in TokenInputs :
             (IsStoredKey(t) /\ IsLogout(t)) =>
                 /\ response'.status = 200
                 /\ \A u \in Users : tokenOf'[u] # t]_vars
    /\ [][(LoggedOut(response'.token) /\ response'.route \in ProtectedRoutes) =>
             /\ response'.status = 401
             /\ UNCHANGED dbVars]_vars
    /\ [][\A t \in TokenInputs :
             (t # NoToken /\ ~IsStoredKey(t) /\ \E u \in Users : tokenOf'[u] = t) =>
                 /\ response'.route = "auth/login"
                 /\ response'.status = 200]_vars

\* alice has logged out, logged in again, and her first key was then refused
\* by a protected route
LoggedOutKeyRefused ==
    /\ tokenOf["alice"] = <<2>>
    /\ response.token = <<1>>
    /\ response.route = "vitals/push"
    /\ response.status = 401

\* ------------------------------------------------------------ user isolation
\* the rows of the tables that belong to users other than u
RowsOfOthers(u, vs, ecs, cs, is) ==
    <<{v \in vs : v.user # u}, {c \in ecs : c.user # u},
      {c \in cs : c.user # u}, {i \in is : i.user # u}>>

\* a step that is a well-formed request with key t naming conversation id
NamesConversation(t, id) ==
    \/ ConversationDetailGet(t, id)
    \/ \E a \in BOOLEAN : ConversationDetailPut(t, id, a)
    \/ ConversationDetailDelete(t, id)
    \/ AssistantChat(t, "hi", Some(id), "connected")
    \/ HealthSummary(t, Some(id), "connected")
    \/ WellnessRecommendations(t, Some(id), "connected")

\* the rows a response returns belong to the user the request was
\* authenticated as
ReturnsOwnRowsOnly ==
    response.user \in Users =>
        \A r \in response.records : r.owner = response.user

\* a request authenticated as a user leaves the rows of the other users as
\* they were
WritesOwnRowsOnly ==
    [][response'.user \in Users =>
          RowsOfOthers(response'.user, vitalSigns', emergencyContacts',
                       conversations', insights')
          = RowsOfOthers(response'.user, vitalSigns, emergencyContacts,
                         conversations, insights)]_vars

\* a request that names a conversation of another user is answered 404
ForeignConversationNotFound ==
    [][\A t \in TokenInputs, id \in ConversationIds :
          (/\ Authenticate(t) \in Users
           /\ \E c \in conversations : c.id = id /\ c.user # Authenticate(t)
           /\ NamesConversation(t, id)) => response'.status = 404]_vars

\* C9: for two users A and B, a request authenticated as A never returns,
\* modifies or deletes a conversation, message, insight or health record
\* owned by B, and a request naming a conversation_id of another user is
\* answered 404.
NoCrossUserAccess ==
    /\ []ReturnsOwnRowsOnly
    /\ WritesOwnRowsOnly
    /\ ForeignConversationNotFound

\* --------------------------------------------------- deleting a conversation
ConversationIdsOf(u, cs) == {c.id : c \in {x \in cs : x.user = u}}

\* C3: a DELETE answered 204 removes the caller's conversation and no other
\* row; a conversation id that is gone never comes back; every list result
\* holds exactly the caller's conversations that are stored (and pass the
\* filter): so the deleted conversation is in no later list result and the
\* user's other conversations still are.  In the browser, deleteConversation
\* resolves only when the conversation is gone, and getConversations resolves
\* with the stored conversations of the logged-in user.
DeletedConversationNotListed ==
    /\ [][\A t \in TokenInputs, id \in ConversationIds :
             (ConversationDetailDelete(t, id) /\ response'.status = 204) =>
                 /\ id \in ConversationIdsOf(Authenticate(t), conversations)
                 /\ conversations' = {c \in conversations : c.id # id}]_vars
    /\ [][\A id \in 1..nextId :
             (\A c \in conversations : c.id # id) =>
                 \A c \in conversations' : c.id # id]_vars
    /\ [][\A t \in TokenInputs, a \in ActiveFilters :
             (ConversationList(t, a) /\ response'.status = 200) =>
                 {r.id : r \in response'.records} =
                     {c.id : c \in {x \in conversations' :
                                      /\ x.user = Authenticate(t)
                                      /\ a \in {None, Some(x.is_active)}}}]_vars
    /\ [][\A id \in ConversationIds :
             (deleteConversation(id) /\ apiCall'.outcome = "resolved") =>
                 /\ response'.status = 204
                 /\ \A c \in conversations' : c.id # id]_vars
    /\ [][(getConversations /\ apiCall'.outcome = "resolved") =>
             {r.id : r \in apiCall'.value} =
                 ConversationIdsOf(localStorage.healix_user, conversations')]_vars

\* alice, the only user who has logged in, had two conversations; one was
\* deleted, and getConversations then resolved with the other one
ListedAfterDelete ==
    /\ tokenOf["bob"] = NoToken
    /\ nextId = 2
    /\ Cardinality(conversations) = 1
    /\ apiCall.fn = "getConversations"
    /\ apiCall.outcome = "resolved"
    /\ {r.id : r \in apiCall.value} = {c.id : c \in conversations}

\* ------------------------------------------------------------ push and pull
\* the row with the greatest id among the rows vs
LastWritten(vs) == CHOOSE v \in vs : \A w \in vs : w.id <= v.id

\* C1: a push answered 201 adds one row, holding the pushed values and owned
\* by the caller, that is the last written; only such a push changes the
\* table; a pull answered while rows are stored returns the last written row;
\* and fetchVitals shows the record the pull returned.  So after any
\* sequence of successful pushes a pull returns the record of the most recent
\* push with the pushed values.
PullReturnsLatestPush ==
    /\ [][\A t \in TokenInputs, p \in ValidVitals :
             (VitalsPush(t, p) /\ response'.status = 201) =>
                 /\ vitalSigns \subseteq vitalSigns'
                 /\ LastWritten(vitalSigns') \notin vitalSigns
                 /\ LastWritten(vitalSigns').data = p
                 /\ LastWritten(vitalSigns').user = Authenticate(t)]_vars
    /\ [][vitalSigns' # vitalSigns =>
             /\ response'.route = "vitals/push"
             /\ response'.status = 201]_vars
    /\ [][(response'.route = "vitals/pull" /\ vitalSigns' # {}) =>
             /\ response'.status = 200
             /\ response'.records = {VitalsItem(LastWritten(vitalSigns'))}]_vars
    /\ [][\A i \in 1..MaxFetches :
             (i <= Len(pulls) /\ PullServed(i) /\ vitalSigns # {}) =>
                 pulls'[i].data = Some(VitalsItem(LastWritten(vitalSigns)))]_vars
    /\ [][\A i \in 1..MaxFetches :
             (/\ i <= Len(pulls)
              /\ fetchVitalsDone(i)
              /\ pulls[i].stage = "answered"
              /\ Ok(pulls[i].status)) => vitals' = pulls[i].data]_vars

\* two different snapshots were pushed and the modal shows the second one
ModalShowsLatestPush ==
    /\ Cardinality(vitalSigns) = 2
    /\ \E v \in vitalSigns : v.data # LatestVitals.data
    /\ LatestVitals.id = 2
    /\ vitals = Some(VitalsItem(LatestVitals))
    /\ pulls = <<>>

\* -------------------------------------------------------------- registration
\* the fields of the payload p that are malformed: a missing or duplicate
\* username or email, an invalid email, a rejected password, a name too long
OffendingFields(p) ==
    (IF p.username = Blank \/ \E a \in accounts : a.username = p.username
     THEN {<<"username">>} ELSE {})
    \cup (IF \/ p.email = Blank
             \/ ~ValidEmail(p.email)
             \/ \E a \in accounts : a.email = p.email
          THEN {<<"email">>} ELSE {})
    \cup (IF p.password \in {ShortPassword, NumericPassword}
             \/ p.password # p.password2
          THEN {<<"password">>} ELSE {})
    \cup (IF p.first_name.length > MaxNameLength
          THEN {<<"first", "_", "name">>} ELSE {})

\* a registration with a malformed payload is answered 400 with messages
\* keyed by exactly the offending fields and creates no user
MalformedAnswered400 ==
    \A p \in RegisterInputs :
        (AuthRegister(p) /\ OffendingFields(p) # {}) =>
            /\ response'.status = 400
            /\ {response'.errors[k].key : k \in 1..Len(response'.errors)}
                   = OffendingFields(p)
            /\ \A k \in 1..Len(response'.errors) :
                   response'.errors[k].items # <<>>
            /\ accounts' = accounts

\* the body of the 400 that the fetch i of the Signup form received
Rejected(i) ==
    /\ i <= Len(registrations)
    /\ SignupDone(i)
    /\ registrations[i].stage = "answered"
    /\ registrations[i].status = 400

Abs(x) == IF x < 0 THEN -x ELSE x

DispatchRunsRegisteredTool ==
    [][\A name \in ToolNames : \A kwargs \in ToolArguments(name) :
          (name \in registry /\ RegistryExecute(name, kwargs)) =>
              /\ invoked' = <<[tool |-> name, kwargs |-> kwargs]>>
              /\ toolResult' = [kind |-> "result",
                                value |-> ToolExecute(name, kwargs)]]_vars

\* a custom tool was registered and then dispatched
CustomToolDispatched ==
    /\ Len(invoked) = 1
    /\ invoked[1].tool \in CustomTools
    /\ toolResult.kind = "result"
    /\ toolResult.value.tool = invoked[1].tool

\* C6: dispatching a name that is not registered runs no tool, changes no
\* table and reports an error; in the browser, a Gemini function call named
\* neither alert_caregiver nor send_vitals_report sends no backend request.
UnknownToolNotExecuted ==
    /\ [][\A name \in ToolNames : \A kwargs \in ToolArguments(name) :
             (name \notin registry /\ RegistryExecute(name, kwargs)) =>
                 /\ invoked' = <<>>
                 /\ toolResult'.kind = "error"
                 /\ UNCHANGED <<registry, dbVars>>]_vars
    /\ [][\A data \in GeminiResponses :
             (/\ GeminiAnswers(data)
              /\ data.ok
              /\ data.functionCall # None
              /\ Get(data.functionCall).name
                     \notin {"alert_caregiver", "send_vitals_report"}) =>
                 /\ sent' = sent
                 /\ geminiStage' = "idle"
                 /\ UNCHANGED dbVars]_vars

\* an unregistered name was dispatched, and Gemini asked the browser for a
\* function it does not know: only the pull of the live vitals was sent
UnknownFunctionIgnored ==
    /\ toolResult.kind = "error"
    /\ invoked = <<>>
    /\ geminiStage = "idle"
    /\ geminiData # None
    /\ Get(geminiData).functionCall # None
    /\ Get(Get(geminiData).functionCall).name = "calculate_bmi"
    /\ Len(sent) = 1
    /\ sent[1].route = "vitals/pull/"

\* ---------------------------------------------------------- context selection
\* the rows of the table whose keyword set matches the query
MatchingRows(query) ==
    {k \in 1..Len(KeywordTable) :
        \E keyword \in KeywordTable[k].keywords : Contains(query, keyword)}

ComprehensiveFallback ==
    /\ ragContext.query = <<"h", "e", "l", "l", "o">>
    /\ ragContext.parts = <<Comprehensive("bob")>>

\* ------------------------------------------------------------------- the chat
IdsOf(rows) == {c.id : c \in rows}

\* a sendMessage call whose request is answered in this step
Answered(i) ==
    /\ Len(chatCalls') = Len(chatCalls)
    /\ chatCalls[i].kind = "send"
    /\ chatCalls[i].stage = "sent"
    /\ chatCalls'[i].stage # "sent"
    /\ chatCalls'[i].status # 0

\* the two messages a successful chat stores for the text of a call
Exchange(call) ==
    <<UserMessage(SerializedMessage(call.payload.message)),
      AssistantMessage(AiReply)>>

IsPrefix(a, b) == Len(a) <= Len(b) /\ SubSeq(b, 1, Len(a)) = a

\* the messages stored for conversation id, none when there is no such row
StoredMessages(rows, id) ==
    IF id \in IdsOf(rows) THEN (CHOOSE c \in rows : c.id = id).messages
    ELSE <<>>

\* C12: a chat answered 200 appends exactly two messages to its
\* conversation: a user message holding the request's message, then an
\* assistant message holding the returned response. Stored messages keep
\* their place: a step only adds messages after them, and a conversation is
\* returned with its messages in the order they were created.
ChatAppendsExchangeInOrder ==
    /\ [][\A i \in 1..Len(chatCalls) :
             (Answered(i) /\ chatCalls'[i].stage = "resolved") =>
                 LET id == chatCalls'[i].conversation_id
                 IN StoredMessages(conversations', id) =
                        StoredMessages(conversations, id) \o
                        <<[role |-> "user",
                           content |->
                               SerializedMessage(chatCalls[i].payload.message)],
                          [role |-> "assistant",
                           content |-> chatCalls'[i].response[1]]>>]_vars
    /\ [][\A c \in conversations :
             IsPrefix(c.messages, StoredMessages(conversations', c.id))]_vars
    /\ [][\A i \in 1..Len(chatCalls) :
             (/\ Len(chatCalls') = Len(chatCalls)
              /\ chatCalls[i].kind = "load"
              /\ chatCalls[i].stage = "sent"
              /\ chatCalls'[i].stage = "resolved") =>
                 chatCalls'[i].loaded =
                     StoredMessages(conversations,
                                    Get(chatCalls[i].payload.conversation_id))]_vars

\* a conversation was loaded with three messages: the user message of a chat
\* answered 503, then the exchange of a later chat
LoadedInCreationOrder ==
    \E i \in 1..Len(chatCalls) :
       /\ chatCalls[i].kind = "load"
       /\ chatCalls[i].stage = "resolved"
       /\ Len(chatCalls[i].loaded) = 3
       /\ chatCalls[i].loaded[2].role = "user"
       /\ chatCalls[i].loaded[3].role = "assistant"

\* ------------------------------------------------------- chat without Gemini
\* the text of a field of a body when it is a string that is not empty
TextOf(body, field) ==
    IF ~body.json \/ body[field] = None THEN None
    ELSE IF Get(body[field]).type # "string" \/ Get(body[field]).value = ""
    THEN None
    ELSE Some(<<Get(body[field]).value>>)

ContactsOf(u) == {x \in emergencyContacts : x.user = u}

\* the e-mails an alert of u owes
AlertsOwed(u) == {[from |-> u, to |-> x.email] : x \in ContactsOf(u)}

\* C14: an alert answered 200 sends an e-mail to every contact the caller
\* has registered at that moment and to nobody else, and the count in the
\* response is the number of those contacts; the modal shows that count.
AlertReachesOwnContacts ==
    /\ [][(response'.route = "emergency/send" /\ response'.status = 200) =>
             /\ UNCHANGED emergencyContacts
             /\ outbox' \ outbox \subseteq AlertsOwed(response'.user)
             /\ AlertsOwed(response'.user) \subseteq outbox'
             /\ \A r \in response'.records :
                   r.count = Cardinality(ContactsOf(response'.user))]_vars
    /\ [][(/\ triggerEmergencyAlertDone
           /\ Get(alertCall).stage = "answered"
           /\ Get(alertCall).status = 200) =>
             successMsg' = Some(<<"Emergency alert sent to ",
                                  ToString(Get(alertCall).count),
                                  " contact(s)">>)]_vars

\* alice's alert went to her one contact and not to bob's
AlertSparedOthers ==
    /\ response.route = "emergency/send"
    /\ response.user = "alice"
    /\ \A r \in response.records : r.count = 1
    /\ ContactsOf("bob") # {}
    /\ \A x \in ContactsOf("bob") : x.email = "joe@example.com"
    /\ outbox = {[from |-> "alice", to |-> "jane@example.com"]}
    /\ successMsg = Some(<<"Emergency alert sent to ", "1", " contact(s)">>)

\* --------------------------------------------------------- listed contacts
\* the e-mail addresses listed in the modal
ListedEmails == {contacts[i].email : i \in 1..Len(contacts)}

\* C20: whenever no addContact is under way, the contacts listed in the
\* modal are exactly the contacts registered on the backend for the user of
\* the browser, which are the ones an alert notifies.
ListedContactsAreRegistered ==
    addCall = None =>
        ListedEmails = {x.email : x \in ContactsOf("alice")}

\* ------------------------------------------------------- the client's header
\* C15: every request of an assistantApi function other than
\* getAssistantStatus carries the token stored under healix_token at the time
\* of the call, and no Authorization header when none is stored; the request
\* of getAssistantStatus never carries one.
RequestsCarryStoredToken ==
    [][(/\ apiCall'.fn # Null
        /\ response'.route # "auth/login"
        /\ (apiCall' # apiCall \/ response' # response)) =>
          IF apiCall'.fn = "getAssistantStatus"
          THEN response'.token = NoToken
          ELSE response'.token = localStorage.healix_token]_vars

\* after logging in, a conversation of the user was fetched with the stored
\* token, and the status was asked for without it
DetailFetchedWithToken ==
    /\ localStorage.healix_token # NoToken
    /\ apiCall.fn = "getConversationDetail"
    /\ apiCall.outcome = "resolved"
    /\ response.token = localStorage.healix_token

EmergencyReplied ==
    /\ geminiReply.outcome = "resolved"
    /\ Len(geminiReply.text) > 0
    /\ geminiReply.text[1] = "**EMERGENCY PROTOCOL ACTIVATED**"

\* C19: generateGeminiReply returns the "EMERGENCY PROTOCOL ACTIVATED" reply
\* only when the POST to emergency/trigger/ completed successfully: whenever
\* the call resolved with that reply, the request was sent and its response
\* was ok.
EmergencyReplyOnlyAfterPost ==
    EmergencyReplied =>
        /\ \E k \in 1..Len(sent) :
              sent[k].route = "emergency/trigger/" /\ sent[k].method = "POST"
        /\ fetchOutcome = "ok"

\* ----------------------------------------------------------- blank messages
\* C17: a message that is empty or only whitespace is never sent: no call in
\* flight carries a blank text; a sendMessage of useConversation that set
\* the error "Message cannot be empty" changed nothing else and issued no
\* request; sendMessage of useGeminiConversation and handleSend of the
\* modal, called with a blank text, change neither the state of the hook
\* nor the input and issue no request.
BlankMessageNeverSent ==
    /\ [](/\ \A i \in 1..Len(chatCalls) :
               chatCalls[i].kind = "send" =>
                   Trim(chatCalls[i].payload.message) # <<>>
          /\ \A i \in 1..Len(replyCalls) : Trim(replyCalls[i].text) # <<>>)
    /\ [][(/\ conversationState' # conversationState
           /\ conversationState'.error = Some(<<"Message cannot be empty">>)) =>
             /\ conversationState' =
                    [conversationState EXCEPT
                        !.error = Some(<<"Message cannot be empty">>)]
             /\ chatCalls' = chatCalls]_vars
    /\ [][(/\ hookCall'.fn \in {"sendMessage", "handleSend"}
           /\ Trim(hookCall'.text) = <<>>) =>
             UNCHANGED <<geminiState, replyCalls, input>>]_vars

\* with messages shown by both hooks, useConversation refused a blank text
\* and the modal's Send was last used on an input of whitespace
BlankRefusedMidConversation ==
    /\ conversationState.error = Some(<<"Message cannot be empty">>)
    /\ Len(conversationState.messages) > 0
    /\ Len(chatCalls) > 0
    /\ hookCall.fn = "handleSend"
    /\ hookCall.text = <<" ">>
    /\ input = <<" ">>
    /\ Len(geminiState.messages) > 0

\* ------------------------------------------------------------- failed sends
\* C18: when the request of a sendMessage call fails, the call removes
\* exactly the user message it appended: after its catch, messages is the
\* list as it was before the call, error holds the failure message, and
\* isLoading and isAiTyping are false.
FailedSendRestoresMessages ==
    [][\A i \in 1..Len(replyCalls) :
          (replyCalls[i].stage = "rejected" /\ geminiSendMessageDone(i)) =>
              /\ geminiState'.messages = replyCalls[i].before
              /\ geminiState'.error = Some(replyCalls[i].message)
              /\ ~geminiState'.isLoading
              /\ ~geminiState'.isAiTyping]_vars

\* ------------------------------------------------------------- chat history
\* C21: Clear Chat on a conversation with messages appends one entry to the
\* end of chatHistory that holds exactly the messages shown, and leaves the
\* earlier entries as they were; Clear Chat on an empty conversation adds
\* no entry; no step alters or removes an entry; and loading an entry makes
\* messages the list that entry holds, which is the list shown before its
\* Clear Chat.
ClearChatSavesAndLoadRestores ==
    /\ [][handleClearChat =>
             IF Len(geminiState.messages) > 0
             THEN /\ Len(chatHistory') = Len(chatHistory) + 1
                  /\ IsPrefix(chatHistory, chatHistory')
                  /\ chatHistory'[Len(chatHistory')].messages =
                         geminiState.messages
             ELSE chatHistory' = chatHistory]_vars
    /\ [][IsPrefix(chatHistory, chatHistory')]_vars
    /\ [][\A k \in 1..Len(chatHistory) :
             handleLoadChat(k) =>
                 /\ geminiState'.messages = chatHistory[k].messages
                 /\ chatHistory' = chatHistory]_vars

\* the first of two different saved chats, an exchange, was loaded again
\* after the second Clear Chat
FirstChatLoadedAgain ==
    /\ Len(chatHistory) = 2
    /\ chatHistory[1] # chatHistory[2]
    /\ Len(chatHistory[1].messages) = 2
    /\ geminiState.messages = chatHistory[1].messages
    /\ ~showHistory
    /\ ~geminiState.isLoading
    /\ replyCalls = <<>>

\* --------------------------------------------------------- requests in flight
\* the sendMessage calls of the modal whose request has not settled
InFlight == {i \in 1..Len(replyCalls) : replyCalls[i].stage = "sent"}

\* C22: in the AIChatModal at most one sendMessage request is in flight at
\* any time, for every interleaving of Send, Clear Chat, Load and request
\* completions.
AtMostOneInFlight == Cardinality(InFlight) <= 1

\* ------------------------------------------------------------ late replies
\* the list shown still begins with the messages call i saw and the user
\* message it appended; it does not once a Clear Chat or a Load has
\* replaced the conversation the call was made in
ShowsConversationOf(i) ==
    IsPrefix(Append(replyCalls[i].before, UserText(replyCalls[i].text)),
             geminiState.messages)

\* C23: a reply or a failure that arrives for a request started before
\* clearConversation or loadConversation never changes the conversation
\* shown afterwards: when the call's conversation is no longer the one
\* shown, the end of the call leaves messages as they are.
LateReplyLeavesMessages ==
    [][\A i \in 1..Len(replyCalls) :
          (geminiSendMessageDone(i) /\ ~ShowsConversationOf(i)) =>
              geminiState'.messages = geminiState.messages]_vars

\* -------------------------------------------------------- new conversations
\* C24: startNewConversation(m) with a non-empty m starts a fresh
\* conversation whatever conversation was active before: the chat request
\* it sends carries no conversation_id, and the list to which the reply is
\* appended is the user message m once.
NewConversationIsFresh ==
    [][\A m \in HookTexts :
          (Trim(m) # <<>> /\ startNewConversation(m)) =>
              /\ chatCalls'[Len(chatCalls')].payload.conversation_id = None
              /\ conversationState'.messages = <<UserText(m)>>]_vars

\* ------------------------------------------------------------- termination
\* a hook is busy: a flag is set or a call of it has not completed
ConversationBusy ==
    conversationState.isLoading \/ conversationState.isAiTyping
        \/ chatCalls # <<>>
GeminiBusy ==
    geminiState.isLoading \/ geminiState.isAiTyping \/ replyCalls # <<>>

DashboardOnlyAfterLogin ==
    /\ [](isLoggedIn =>
             /\ localStorage.healix_token # NoToken
             /\ localStorage.healix_user \in Users)
    /\ [][(isLoggedIn' /\ ~isLoggedIn) =>
             /\ loginCall # None
             /\ Ok(Get(loginCall).status)
             /\ Get(loginCall).token # NoToken
             /\ localStorage.healix_token = Get(loginCall).token
             /\ localStorage.healix_user = Get(loginCall).username
             /\ ~loginLoading']_vars
    /\ [][localStorage' # localStorage =>
             /\ loginCall # None
             /\ Get(loginCall).stage = "resolved"
             /\ Ok(Get(loginCall).status)]_vars
    /\ [][(/\ loginCall # None
           /\ Get(loginCall).stage = "rejected"
           /\ loginCall' = None) =>
             /\ localStorage' = localStorage
             /\ ~isLoggedIn'
             /\ loginError' = Get(loginCall).message
             /\ loginError' # Null
             /\ ~loginLoading']_vars

\* bob is shown the Dashboard, his key and name stored, the call over
BobShownDashboard ==
    /\ isLoggedIn
    /\ localStorage.healix_user = "bob"
    /\ localStorage.healix_token = tokenOf["bob"]
    /\ localStorage.healix_token # NoToken
    /\ loginCall = None
    /\ ~loginLoading
    /\ loginError = Null

\* ------------------------------------------------------------------ logout
\* C27: once the user is logged in through Index, activating Logout in the
\* settings menu of the Dashboard closes the menu and returns the
\* application to the Login screen: isLoggedIn becomes false.
LogoutReturnsToLogin ==
    [][DashboardLogout => (~settingsOpen' /\ ~isLoggedIn')]_vars

\* ------------------------------------------------------------ insight card
Measured(a) == a.kind = "number"
Reported(name) ==
    \E k \in 1..Len(insight.anomalies) : insight.anomalies[k] = name

\* C28: generateAIInsight reports an anomaly only for a measured value
\* beyond its threshold (heart rate above 100 or below 50, SpO2 below 95,
\* systolic above 130 or diastolic above 85, temperature above 37.5), and
\* the CRITICAL ALERT text only when the measured heart rate exceeds 120 or
\* the measured SpO2 is below 90; a field that is null or missing produces
\* no anomaly and no critical alert.
AnomaliesOnlyForMeasuredValues ==
    insightData # None =>
        LET data == Get(insightData)
        IN /\ Reported("tachycardia") =>
                  (Measured(data.heart_rate) /\ data.heart_rate.value > 100)
           /\ Reported("bradycardia") =>
                  (Measured(data.heart_rate) /\ data.heart_rate.value < 50)
           /\ Reported("sub-optimal blood oxygen saturation") =>
                  /\ Measured(data.oxygen_saturation)
                  /\ data.oxygen_saturation.value < 95
           /\ Reported("elevated blood pressure") =>
                  \/ /\ Measured(data.blood_pressure_systolic)
                     /\ data.blood_pressure_systolic.value > 130
                  \/ /\ Measured(data.blood_pressure_diastolic)
                     /\ data.blood_pressure_diastolic.value > 85
           /\ Reported("a slight temperature elevation") =>
                  /\ Measured(data.body_temperature)
                  /\ data.body_temperature.value > 375
           /\ insight.text = "CRITICAL ALERT" =>
                  \/ /\ Measured(data.heart_rate)
                     /\ data.heart_rate.value > 120
                  \/ /\ Measured(data.oxygen_saturation)
                     /\ data.oxygen_saturation.value < 90

====
